---------------------------- MODULE Spec2Model ----------------------------
(***************************************************************************)
(* Verification model of poc-auto-pr-fix: the commit-fault locator         *)
(* (fault_commit_analyzer.py), the learning store and feedback loop        *)
(* (pr_outcome_monitor.py, pr_merge_handler.py) and the pattern store of   *)
(* learning_classifier.py with its webhook front end.                      *)
(***************************************************************************)
EXTENDS Integers, Sequences, FiniteSets, TLC

(***************************************************************************)
(* Bounds of the model and constants of the program.                       *)
(***************************************************************************)
MaxChain == 21              \* longest single-transition commit chain explored
MaxFreeChain == 4           \* longest chain with arbitrary compile results
GIT_LOG_COUNT == 20         \* git log --oneline -20
MAX_BISECT_ATTEMPTS == 50   \* safety cap for git bisect
MAX_HISTORY_SEARCH == 10    \* max_search of build_fix_v2.find_last_good_commit
MaxFaults == 1              \* failing git/javac invocations explored per run

None == 0                   \* Python None for a commit sha / timestamp

MaxAttempts == 4            \* recorded outcomes explored per store
MaxFlips == 2               \* promotions (and demotions) explored per store
MaxClock == 2               \* clock readings explored
SUCCESS_THRESHOLD == 3              \* pr_outcome_monitor.py, promote after 3 successes
FAILURE_THRESHOLD == 2              \* pr_outcome_monitor.py, demote after 2 failures
CONSECUTIVE_SUCCESS_THRESHOLD == 3  \* consecutive successes needed for promotion
MIN_ATTEMPTS_FOR_DEMOTION == 3      \* the literal 3 of check_demotion

MaxPRs == 2                 \* pull requests explored
MaxRootCauses == 2          \* root causes attributed to one pull request
MaxDeliveries == 2          \* deliveries of one terminal event explored
MaxTracked == 7             \* pull requests the monitor follows
MaxEntries == 3             \* tracking entries when a pull request has several
MaxFixAttempts == 5         \* fix attempts the classifier records
MaxIssues == 2              \* issues listed in one pull request body
MaxPromotions == 2          \* promotions the classifier performs
MaxPrior == 3               \* merged pull requests the monitor saw earlier
MaxPayloadFixes == 3        \* fix attempts recorded from webhook payloads
MaxSessions == 2             \* builds (BUILD_ID values) explored
MaxRecorded == 4             \* attempts recorded in one fix history
MaxFrames == 3              \* nested _load calls before the stack is exhausted
MAX_ERROR_EXAMPLES == 5
LC_SUCCESS_THRESHOLD == 5   \* SUCCESS_THRESHOLD of learning_classifier.py

Categories == {"risky:business_logic", "safe:missing_import"}
Procs == {"h1", "h2"}
PRs == 1..MaxPRs

Min(a, b) == IF a < b THEN a ELSE b

(***************************************************************************)
(* State of one FaultyCommitAnalyzer.analyze run and of the repository it  *)
(* works on.  A commit is its position in the chain (1 = oldest,           *)
(* Len(chain) = the failing HEAD); chain[c] says whether commit c compiles.*)
(***************************************************************************)
VARIABLES
    chain,          \* compile result of every commit of the linear history
    head,           \* commit currently checked out
    stash,          \* git stash stack, newest first; an entry is a set of changes
    wt,             \* uncommitted changes of the working tree
    pc,             \* position of the analyze run
    idx,            \* loop index of find_last_good_commit
    current_sha,    \* HEAD recorded by the running phase
    good_commit,    \* result of find_last_good_commit
    lo, hi,         \* git bisect: newest known good, oldest known bad
    found,          \* git bisect log holds "first bad commit"
    attempt,        \* loop counter of run_git_bisect
    orig,           \* revision git bisect reset returns to
    faulty_commit,  \* result of run_git_bisect
    result,         \* the dictionary analyze returns
    calls,          \* javac invocations made so far
    faults,         \* git or javac invocations that failed to execute so far
    head0, stash0, wt0   \* snapshot taken before the run

locVars == <<chain, head, stash, wt, pc, idx, current_sha, good_commit, lo, hi,
             found, attempt, orig, faulty_commit, result, calls, faults,
             head0, stash0, wt0>>

(***************************************************************************)
(* State of the learning store of pr_outcome_monitor.py: the JSON document *)
(* on disk and the copy each LearningDatabase object holds in memory.      *)
(***************************************************************************)
VARIABLES
    now,            \* datetime.now(), as a counter
    db_file,        \* learning_db.json: Missing or the saved document
    ldb,            \* per process: Unloaded or LearningDatabase.data
    last            \* the last store operation: its arguments and the data before

storeVars == <<now, db_file, ldb, last>>

(***************************************************************************)
(* State of the feedback loop: the PR tracking file, the pull requests as  *)
(* GitHub reports them, and what has been delivered and recorded so far.   *)
(***************************************************************************)
VARIABLES
    trk_file,       \* pr_tracking.json: Missing or the saved document
    trk,            \* per process: Unloaded or PRTracker.data
    pr_meta,        \* per PR: the root_causes of its LEARNING_METADATA, or NoMeta
    pr_merged,      \* per PR: whether it was merged when it was closed
    delivered,      \* per PR: terminal events delivered so far
    recorded        \* per root cause: record_outcome calls made so far

loopVars == <<trk_file, trk, pr_meta, pr_merged, delivered, recorded>>

(***************************************************************************)
(* State of the learning classifier (learning_classifier.py).              *)
(***************************************************************************)
VARIABLES
    cdb_file,       \* the classifier's learning_db.json: Missing or the document
    clast           \* the last classifier operation, its input and result

clsVars == <<cdb_file, clast>>

(***************************************************************************)
(* State of one process that works on a learning_classifier store through  *)
(* a LearningDatabase object it keeps (test_learning_system.py).           *)
(***************************************************************************)
VARIABLES
    cdb,            \* Unloaded or the data of the process's LearningDatabase
    lc_calls        \* the calls made on that object so far, oldest first

learnVars == <<cdb, lc_calls>>

(***************************************************************************)
(* State of the retry guard of build_fix.py: the fix history file next to  *)
(* the source file and the build (session) the script runs in.             *)
(***************************************************************************)
VARIABLES
    fix_history,    \* <source>.fix_history.json: Missing or the document
    session,        \* BUILD_ID / RUN_ID of the running build, None when unset
    attempted,      \* the attempts recorded so far: <<session, error hash>>
    flast           \* the last run of build_fix.py: its input and verdict

fixVars == <<fix_history, session, attempted, flast>>

vars == <<locVars, storeVars, loopVars, clsVars, learnVars, fixVars>>

\* what a step of each component leaves alone
notLocVars == <<storeVars, loopVars, clsVars, learnVars, fixVars>>
notStoreVars == <<locVars, loopVars, clsVars, learnVars, fixVars>>
notLoopVars == <<locVars, clsVars, learnVars, fixVars>>
notClsVars == <<locVars, loopVars, learnVars, fixVars>>

----------------------------------------------------------------------------
(***************************************************************************)
(* git and javac as the locator uses them.                                 *)
(***************************************************************************)

\* git log --oneline -20: newest first, the current HEAD at python index 0
git_log(n) == [i \in 1..Min(GIT_LOG_COUNT, n) |-> n - i + 1]

\* git stash: saves the local changes if there are any, else does nothing
git_stash(st, w) ==
    IF w = {} THEN [stash |-> st, wt |-> w]
              ELSE [stash |-> <<w>> \o st, wt |-> {}]

\* git stash pop: applies and drops the newest entry, whoever pushed it
git_stash_pop(st, w) ==
    IF st = <<>> THEN [stash |-> st, wt |-> w]
                 ELSE [stash |-> Tail(st), wt |-> w \cup Head(st)]

\* git checkout <sha> with check=False: HEAD moves only if the command succeeds
git_checkout(h, target, ok) == IF ok THEN target ELSE h

\* javac <source_file>: compiles the file of the working tree, which is the
\* checked-out commit's unless local changes are applied on top of it
javac(c, h, w, with_changes) == IF w = {} THEN c[h] ELSE with_changes

\* the commit git bisect checks out between a good and a bad revision
bisect_mid(l, h) == l + ((h - l) \div 2)

\* git bisect good / git bisect bad on the commit under test
bisect_mark(l, h, c, compiles) ==
    IF compiles THEN [lo |-> c, hi |-> h] ELSE [lo |-> l, hi |-> c]

\* the restore both search exits and the verifier's finally block perform
restore(h, st, w, cur, ok) ==
    LET p == git_stash_pop(st, w)
    IN  [head |-> git_checkout(h, cur, ok), stash |-> p.stash, wt |-> p.wt]

\* an invocation that failed to execute (as opposed to "does not compile")
Fault(out) == IF out \in {"ok", "compiled"} THEN 0 ELSE 1
RestoreFault(rok) == IF rok THEN 0 ELSE 1

EmptyResult_already_successful == [success |-> TRUE, faulty_commit |-> None, verified |-> FALSE, error |-> "none"]

EmptyResult == [success |-> FALSE, faulty_commit |-> None, verified |-> FALSE,
                error |-> "none"]

----------------------------------------------------------------------------
(***************************************************************************)
(* LearningDatabase of pr_outcome_monitor.py.  Every operation takes the   *)
(* in-memory document and returns the document after it, whether save()    *)
(* was called, and the value returned.                                     *)
(***************************************************************************)

Missing == [exists |-> FALSE]      \* the file does not exist
Unloaded == [loaded |-> FALSE]     \* no LearningDatabase object constructed yet

\* the document _load returns when learning_db.json does not exist
NewDatabase(t) ==
    [metadata |-> [created |-> t, last_updated |-> t, total_patterns |-> 0,
                   promoted_patterns |-> 0, demoted_patterns |-> 0],
     root_causes |-> << >>]

\* the record record_outcome creates for a root cause it has not seen
NewPattern(t) ==
    [confidence |-> "low", success_count |-> 0, failure_count |-> 0,
     consecutive_successes |-> 0, consecutive_failures |-> 0,
     total_attempts |-> 0, promoted_at |-> None, last_update |-> t]

\* a file that exists and that json.load rejects
Corrupt == [exists |-> TRUE, parses |-> FALSE]

\* what the interpreter raises when the call stack is exhausted
RecursionError == [raised |-> "RecursionError"]

\* _load at call depth `depth`: a missing file gives a fresh document and a
\* file that parses gives its content; when json.load raises, the except
\* block logs and calls _load again on the same path, and the file is as it
\* was.  The deepest call raises RecursionError, and every caller is in its
\* except block, outside the try, so the error leaves the outermost call.
RECURSIVE load_frame(_, _, _)
load_frame(file, t, depth) ==
    IF file = Missing THEN NewDatabase(t)
    ELSE IF file # Corrupt THEN file
    ELSE IF depth >= MaxFrames THEN RecursionError
    ELSE load_frame(file, t, depth + 1)

\* _load: a missing file gives a fresh document, else the parsed file
load_db(file, t) == load_frame(file, t, 1)

\* save: stamps metadata.last_updated and writes the whole document
save(data, t) == [data EXCEPT !.metadata.last_updated = t]

Known(data, rc) == rc \in DOMAIN data.root_causes

record_outcome_no_increment(data, rc, success, t) ==
    LET d1 == IF Known(data, rc) THEN data
              ELSE [data EXCEPT !.root_causes = (rc :> NewPattern(t)) @@ @,
                                !.metadata.total_patterns = @ + 1]
        p1 == [d1.root_causes[rc] EXCEPT !.last_update = t]
        p2 == IF success
              THEN [p1 EXCEPT !.success_count = @ + 1,
                              !.consecutive_successes = @ + 1,
                              !.consecutive_failures = 0]
              ELSE [p1 EXCEPT !.failure_count = @ + 1,
                              !.consecutive_successes = 0,
                              !.consecutive_failures = @ + 1]
    IN  [data |-> save([d1 EXCEPT !.root_causes[rc] = p2], t),
         saved |-> TRUE, ret |-> TRUE]

record_outcome(data, rc, success, t) ==
    LET d1 == IF Known(data, rc) THEN data
              ELSE [data EXCEPT !.root_causes = (rc :> NewPattern(t)) @@ @,
                                !.metadata.total_patterns = @ + 1]
        p1 == [d1.root_causes[rc] EXCEPT !.total_attempts = @ + 1,
                                         !.last_update = t]
        p2 == IF success
              THEN [p1 EXCEPT !.success_count = @ + 1,
                              !.consecutive_successes = @ + 1,
                              !.consecutive_failures = 0]
              ELSE [p1 EXCEPT !.failure_count = @ + 1,
                              !.consecutive_successes = 0,
                              !.consecutive_failures = @ + 1]
    IN  [data |-> save([d1 EXCEPT !.root_causes[rc] = p2], t),
         saved |-> TRUE, ret |-> TRUE]

check_promotion(data, rc) ==
    IF ~Known(data, rc) THEN FALSE
    ELSE LET pattern == data.root_causes[rc]
         IN  \/ pattern.consecutive_successes >= CONSECUTIVE_SUCCESS_THRESHOLD
             \/ /\ pattern.success_count >= SUCCESS_THRESHOLD
                /\ pattern.success_count > pattern.failure_count

promote_pattern_counts_every_call(data, rc, t) ==
    IF ~Known(data, rc) THEN [data |-> data, saved |-> FALSE, ret |-> FALSE]
    ELSE [data |-> save([data EXCEPT !.root_causes[rc].confidence = "high",
                                     !.root_causes[rc].promoted_at = t,
                                     !.metadata.promoted_patterns = @ + 1], t),
          saved |-> TRUE, ret |-> TRUE]

promote_pattern(data, rc, t) ==
    IF ~Known(data, rc) THEN [data |-> data, saved |-> FALSE, ret |-> FALSE]
    ELSE IF data.root_causes[rc].confidence = "high"
    THEN [data |-> data, saved |-> FALSE, ret |-> TRUE]
    ELSE [data |-> save([data EXCEPT !.root_causes[rc].confidence = "high",
                                     !.root_causes[rc].promoted_at = t,
                                     !.metadata.promoted_patterns = @ + 1], t),
          saved |-> TRUE, ret |-> TRUE]

check_demotion_any_confidence(data, rc) ==
    IF ~Known(data, rc) THEN FALSE
    ELSE LET pattern == data.root_causes[rc]
         IN  \/ pattern.consecutive_failures >= FAILURE_THRESHOLD
             \/ /\ pattern.failure_count > pattern.success_count
                /\ pattern.total_attempts >= MIN_ATTEMPTS_FOR_DEMOTION

check_demotion(data, rc) ==
    IF ~Known(data, rc) THEN FALSE
    ELSE LET pattern == data.root_causes[rc]
         IN  IF pattern.confidence # "high" THEN FALSE
             ELSE \/ pattern.consecutive_failures >= FAILURE_THRESHOLD
                  \/ /\ pattern.failure_count > pattern.success_count
                     /\ pattern.total_attempts >= MIN_ATTEMPTS_FOR_DEMOTION

demote_pattern_resets_failures(data, rc, t) ==
    IF ~Known(data, rc) THEN [data |-> data, saved |-> FALSE, ret |-> FALSE]
    ELSE IF data.root_causes[rc].confidence = "low"
    THEN [data |-> data, saved |-> FALSE, ret |-> TRUE]
    ELSE [data |-> save([data EXCEPT !.root_causes[rc].confidence = "low",
                                     !.root_causes[rc].consecutive_successes = 0,
                                     !.root_causes[rc].consecutive_failures = 0,
                                     !.metadata.demoted_patterns = @ + 1], t),
          saved |-> TRUE, ret |-> TRUE]

demote_pattern(data, rc, t) ==
    IF ~Known(data, rc) THEN [data |-> data, saved |-> FALSE, ret |-> FALSE]
    ELSE IF data.root_causes[rc].confidence = "low"
    THEN [data |-> data, saved |-> FALSE, ret |-> TRUE]
    ELSE [data |-> save([data EXCEPT !.root_causes[rc].confidence = "low",
                                     !.root_causes[rc].consecutive_successes = 0,
                                     !.metadata.demoted_patterns = @ + 1], t),
          saved |-> TRUE, ret |-> TRUE]

\* recorded outcomes of a document, over all root causes
RECURSIVE SumAttempts(_, _)
SumAttempts(data, S) ==
    IF S = {} THEN 0
    ELSE LET c == CHOOSE x \in S : TRUE
         IN  data.root_causes[c].total_attempts + SumAttempts(data, S \ {c})

Attempts(data) == SumAttempts(data, DOMAIN data.root_causes)

----------------------------------------------------------------------------
(***************************************************************************)
(* LearningDatabase of learning_classifier.py.  A string with colons is    *)
(* the sequence of its parts, so that joining two strings with a colon is  *)
(* the concatenation of their parts.                                       *)
(***************************************************************************)

\* f"{category}:{error_pattern}"
pattern_key(category, error_pattern) == category \o error_pattern

\* the document _load returns when the file does not exist
NewClassifierDb(t) ==
    [metadata |-> [created |-> t, last_updated |-> t,
                   total_fixes_attempted |-> 0, total_fixes_succeeded |-> 0,
                   total_patterns_promoted |-> 0],
     patterns |-> << >>,
     pattern_history |-> << >>]

\* the record record_fix_attempt creates for a pattern it has not seen
NewStats(category, error_pattern, t) ==
    [category |-> category, pattern |-> error_pattern, total_attempts |-> 0,
     successful_fixes |-> 0, failed_fixes |-> 0,
     success_rate |-> [num |-> 0, den |-> 1], promoted_to_high |-> FALSE,
     promotion_date |-> None, consecutive_successes |-> 0,
     consecutive_failures |-> 0, last_updated |-> t, error_examples |-> << >>]

\* learning_classifier's _load at call depth `depth`: the same recursion
RECURSIVE lc_load_frame(_, _, _)
lc_load_frame(file, t, depth) ==
    IF file = Missing THEN NewClassifierDb(t)
    ELSE IF file # Corrupt THEN file
    ELSE IF depth >= MaxFrames THEN RecursionError
    ELSE lc_load_frame(file, t, depth + 1)

lc_load(file, t) == lc_load_frame(file, t, 1)

lc_save(data, t) == [data EXCEPT !.metadata.last_updated = t]

lc_known(data, key) == key \in DOMAIN data.patterns

\* record_fix_attempt: counts the attempt in memory; it does not save
record_fix_attempt(data, error_pattern, category, success, has_message, t) ==
    LET key == pattern_key(category, error_pattern)
        d1 == IF lc_known(data, key) THEN data
              ELSE [data EXCEPT !.patterns =
                        (key :> NewStats(category, error_pattern, t)) @@ @]
        s1 == [d1.patterns[key] EXCEPT !.total_attempts = @ + 1]
        s2 == IF success
              THEN [s1 EXCEPT !.successful_fixes = @ + 1,
                              !.consecutive_successes = @ + 1,
                              !.consecutive_failures = 0]
              ELSE [s1 EXCEPT !.failed_fixes = @ + 1,
                              !.consecutive_failures = @ + 1,
                              !.consecutive_successes = 0]
        s3 == [s2 EXCEPT !.success_rate = [num |-> s2.successful_fixes,
                                           den |-> s2.total_attempts],
                         !.last_updated = t,
                         !.error_examples =
                             IF has_message /\ Len(@) < MAX_ERROR_EXAMPLES
                             THEN Append(@, [timestamp |-> t,
                                             success |-> success])
                             ELSE @]
    IN  [d1 EXCEPT !.patterns[key] = s3,
                   !.metadata.total_fixes_attempted = @ + 1,
                   !.metadata.total_fixes_succeeded =
                       IF success THEN @ + 1 ELSE @]

lc_check_promotion_above_threshold(data, error_pattern, category) ==
    LET key == pattern_key(category, error_pattern)
    IN  IF ~lc_known(data, key) THEN FALSE
        ELSE IF data.patterns[key].promoted_to_high THEN FALSE
        ELSE data.patterns[key].consecutive_successes > LC_SUCCESS_THRESHOLD

lc_check_promotion(data, error_pattern, category) ==
    LET key == pattern_key(category, error_pattern)
    IN  IF ~lc_known(data, key) THEN FALSE
        ELSE IF data.patterns[key].promoted_to_high THEN FALSE
        ELSE data.patterns[key].consecutive_successes >= LC_SUCCESS_THRESHOLD

\* promote_pattern: marks the pattern, stamps the date, logs the promotion,
\* counts it and saves, whatever the pattern's state was
lc_promote_pattern(data, error_pattern, category, t) ==
    LET key == pattern_key(category, error_pattern)
    IN  IF ~lc_known(data, key)
        THEN [data |-> data, saved |-> FALSE, ret |-> FALSE]
        ELSE [data |-> lc_save(
                  [data EXCEPT
                      !.patterns[key].promoted_to_high = TRUE,
                      !.patterns[key].promotion_date = t,
                      !.pattern_history = Append(@,
                          [action |-> "PROMOTED", pattern_key |-> key,
                           category |-> category,
                           success_rate |-> data.patterns[key].success_rate,
                           consecutive_successes |->
                               data.patterns[key].consecutive_successes,
                           timestamp |-> t]),
                      !.metadata.total_patterns_promoted = @ + 1], t),
              saved |-> TRUE, ret |-> TRUE]

----------------------------------------------------------------------------
(***************************************************************************)
(* PROutcomeTracker of github_webhook_handler.py.                          *)
(***************************************************************************)

\* _extract_error_patterns: for each issue of the body the category after
\* the first colon, or the whole name without one, and the name as pattern
extract_pattern(category_full) ==
    [category |-> IF Len(category_full) > 1 THEN Tail(category_full)
                                            ELSE category_full,
     pattern |-> category_full]

\* a line of a pull request body that is not an issue entry
OtherLine == << "text" >>

\* _extract_error_patterns: the category names of the lines that match
\* **Issue N:** `category` (Confidence: X%), in the order of the body
extract_error_patterns(pr_body) ==
    SelectSeq(pr_body, LAMBDA line : line # OtherLine)

\* the loop of _process_success / _process_failure over the issues; a
\* promotion is checked for after a success only
RECURSIVE process_patterns(_, _, _, _)
process_patterns(data, issues, merged, t) ==
    IF issues = << >> THEN data
    ELSE CHOOSE after \in
             {process_patterns(
                  IF merged /\ lc_check_promotion(d1, info.pattern,
                                                  info.category)
                  THEN lc_promote_pattern(d1, info.pattern, info.category,
                                          t).data
                  ELSE d1,
                  Tail(issues), merged, t) :
              d1 \in {record_fix_attempt(data, info.pattern, info.category,
                                         merged, FALSE, t) :
                      info \in {extract_pattern(Head(issues))}},
              info \in {extract_pattern(Head(issues))}} : TRUE

\* process_github_webhook on a pull request event: the document after it
\* and whether it was saved
process_github_webhook_always_success(data, action, is_auto_fix_pr, merged, pr_body, t) ==
    IF action # "closed" \/ ~is_auto_fix_pr
    THEN [data |-> data, saved |-> FALSE, status |-> "ignored",
          patterns_recorded |-> 0]
    ELSE LET error_patterns == extract_error_patterns(pr_body)
         IN  [data |-> lc_save(process_patterns(data, error_patterns,
                                                merged, t), t),
              saved |-> TRUE,
              status |-> "success",
              patterns_recorded |-> Len(error_patterns)]

process_github_webhook(data, action, is_auto_fix_pr, merged, pr_body, t) ==
    IF action # "closed" \/ ~is_auto_fix_pr
    THEN [data |-> data, saved |-> FALSE, status |-> "ignored",
          patterns_recorded |-> 0]
    ELSE LET error_patterns == extract_error_patterns(pr_body)
         IN  [data |-> lc_save(process_patterns(data, error_patterns,
                                                merged, t), t),
              saved |-> TRUE,
              status |-> IF merged THEN "success" ELSE "failure",
              patterns_recorded |-> Len(error_patterns)]

----------------------------------------------------------------------------
(***************************************************************************)
(* PRTracker of pr_outcome_monitor.py.                                     *)
(***************************************************************************)

\* the document PRTracker._load returns when pr_tracking.json does not exist
NewTracking(t) == [prs |-> << >>, created |-> t]

load_tracking(file, t) == IF file \in {Missing, Corrupt} THEN NewTracking(t) ELSE file

\* add_pr: appends an open entry and saves
add_pr(data, pr_number, root_cause, t) ==
    [data EXCEPT !.prs = Append(@,
        [pr_number |-> pr_number, root_cause |-> root_cause, status |-> "open",
         created_at |-> t, outcome |-> "none", outcome_checked_at |-> None,
         merged_at |-> None])]

\* position of the first entry with this number, 0 if there is none
first_entry(data, pr_number) ==
    IF \E i \in 1..Len(data.prs) : data.prs[i].pr_number = pr_number
    THEN CHOOSE i \in 1..Len(data.prs) :
             /\ data.prs[i].pr_number = pr_number
             /\ \A j \in 1..(i - 1) : data.prs[j].pr_number # pr_number
    ELSE 0

\* get_pr: whether some entry has this number
get_pr(data, pr_number) == first_entry(data, pr_number) # 0

\* update_pr_status: rewrites the first entry with this number and saves;
\* without such an entry nothing is written
update_pr_status(data, pr_number, status, outcome, merged_at, t) ==
    LET i == first_entry(data, pr_number)
    IN  IF i = 0 THEN data
        ELSE [data EXCEPT !.prs[i].status = status,
                          !.prs[i].outcome = outcome,
                          !.prs[i].outcome_checked_at = t,
                          !.prs[i].merged_at =
                              IF merged_at # None THEN merged_at ELSE @]

\* add_pr for each root cause of a list, in order
RECURSIVE add_prs(_, _, _, _)
add_prs(data, pr_number, root_causes, t) ==
    IF root_causes = << >> THEN data
    ELSE add_prs(add_pr(data, pr_number, Head(root_causes), t), pr_number,
                 Tail(root_causes), t)

----------------------------------------------------------------------------
(***************************************************************************)
(* PROutcomeMonitor of pr_outcome_monitor.py.  GitHub answers a status     *)
(* request with the state of the pull request, or not at all.              *)
(***************************************************************************)
GitHubAnswers == {"open", "merged", "closed", "fetch_failed"}

\* check_pr_status: None when the pull request is not tracked or GitHub
\* does not answer, else the status and the outcome it stands for
check_pr_status(tracking, pr_number, answer) ==
    IF ~get_pr(tracking, pr_number) \/ answer = "fetch_failed"
    THEN [none |-> TRUE]
    ELSE [none |-> FALSE, status |-> answer,
          decided |-> answer # "open", success |-> answer = "merged"]

\* the body of the loop of monitor_open_prs for one open entry
monitor_entry(db, tracking, entry, answer, t) ==
    LET st == check_pr_status(tracking, entry.pr_number, answer)
    IN  IF st.none \/ ~st.decided
        THEN [db |-> db, trk |-> tracking, recorded |-> FALSE,
              promoted |-> FALSE, demoted |-> FALSE, success |-> FALSE,
              became_high |-> FALSE, became_low |-> FALSE]
        ELSE LET root_cause == entry.root_cause
                 outcome == IF st.success THEN "success" ELSE "failure"
                 d1 == record_outcome(db, root_cause, st.success, t).data
                 should_promote == check_promotion(d1, root_cause)
                 d2 == IF should_promote
                       THEN promote_pattern(d1, root_cause, t).data ELSE d1
                 should_demote == check_demotion(d2, root_cause)
                 d3 == IF should_demote
                       THEN demote_pattern(d2, root_cause, t).data ELSE d2
             IN  [db |-> d3,
                  trk |-> update_pr_status(tracking, entry.pr_number,
                                           st.status, outcome, None, t),
                  recorded |-> TRUE,
                  promoted |-> should_promote, demoted |-> should_demote,
                  success |-> st.success,
                  became_high |->
                      /\ d1.root_causes[root_cause].confidence = "low"
                      /\ d2.root_causes[root_cause].confidence = "high",
                  became_low |->
                      /\ d2.root_causes[root_cause].confidence = "high"
                      /\ d3.root_causes[root_cause].confidence = "low"]

\* get_open_prs: the entries with status open, in file order
get_open_prs(data) == SelectSeq(data.prs, LAMBDA pr : pr.status = "open")

\* monitor_open_prs over the entries that were open when it started;
\* answers gives what GitHub says about each pull request
RECURSIVE monitor_loop(_, _, _, _, _, _)
monitor_loop(db, tracking, open_prs, answers, t, done) ==
    IF open_prs = << >>
    THEN [db |-> db, trk |-> tracking, done |-> done]
    ELSE CHOOSE after \in
             {monitor_loop(r.db, r.trk, Tail(open_prs), answers, t,
                           Append(done,
                                  [root_cause |-> Head(open_prs).root_cause,
                                   recorded |-> r.recorded,
                                   promoted |-> r.promoted,
                                   demoted |-> r.demoted,
                                   success |-> r.success,
                                   became_high |-> r.became_high,
                                   became_low |-> r.became_low])) :
              r \in {monitor_entry(db, tracking, Head(open_prs),
                                   answers[Head(open_prs).pr_number], t)}} :
             TRUE

----------------------------------------------------------------------------
(***************************************************************************)
(* PRMergeHandler of pr_merge_handler.py.                                  *)
(***************************************************************************)
NoMeta == << "no metadata" >>

\* the loop of handle_pr_merged / handle_pr_closed over the root causes:
\* record_outcome, then a check whose result is only logged
RECURSIVE record_all(_, _, _, _)
record_all(data, root_causes, success, t) ==
    IF root_causes = << >> THEN data
    ELSE record_all(record_outcome(data, Head(root_causes), success, t).data,
                    Tail(root_causes), success, t)

\* handle_pr_merged: the store and the tracking data after it, and its result
handle_pr_merged(db, tracking, pr_number, root_causes, t) ==
    IF root_causes = NoMeta \/ root_causes = << >>
    THEN [db |-> db, trk |-> tracking, trk_saved |-> FALSE, ret |-> FALSE,
          recorded |-> FALSE]
    ELSE [db |-> record_all(db, root_causes, TRUE, t),
          trk |-> IF get_pr(tracking, pr_number)
                  THEN update_pr_status(tracking, pr_number, "merged",
                                        "success", t, t)
                  ELSE update_pr_status(
                           add_prs(tracking, pr_number, root_causes, t),
                           pr_number, "merged", "success", t, t),
          trk_saved |-> TRUE, ret |-> TRUE, recorded |-> TRUE]

\* handle_pr_closed: the same for a pull request closed without merge
handle_pr_closed(db, tracking, pr_number, root_causes, t) ==
    IF root_causes = NoMeta \/ root_causes = << >>
    THEN [db |-> db, trk |-> tracking, trk_saved |-> FALSE, ret |-> FALSE,
          recorded |-> FALSE]
    ELSE [db |-> record_all(db, root_causes, FALSE, t),
          trk |-> IF get_pr(tracking, pr_number)
                  THEN update_pr_status(tracking, pr_number, "closed",
                                        "failure", t, t)
                  ELSE tracking,
          trk_saved |-> get_pr(tracking, pr_number), ret |-> TRUE,
          recorded |-> TRUE]

\* handle_webhook_event: only a closed event of a PR whose title marks a
\* low-confidence fix is handled, everything else is ignored with result True
handle_webhook_event(db, tracking, pr_number, action, title, merged, rcs, t) ==
    IF ~title \/ action # "closed"
    THEN [db |-> db, trk |-> tracking, trk_saved |-> FALSE, ret |-> TRUE,
          recorded |-> FALSE]
    ELSE IF merged
    THEN handle_pr_merged(db, tracking, pr_number, rcs, t)
    ELSE handle_pr_closed(db, tracking, pr_number, rcs, t)

\* how often a root cause occurs in a list
RECURSIVE Occurrences(_, _)
Occurrences(root_causes, rc) ==
    IF root_causes = << >> THEN 0
    ELSE (IF Head(root_causes) = rc THEN 1 ELSE 0)
             + Occurrences(Tail(root_causes), rc)

----------------------------------------------------------------------------
(***************************************************************************)
(* Initial states of a locator run.                                        *)
(***************************************************************************)
SingleTransitionChains ==
    UNION { { [i \in 1..n |-> i < k] : k \in 2..n } : n \in 2..MaxChain }

FreeChains ==
    UNION { { [i \in 1..n |-> IF i = n THEN FALSE ELSE f[i]] :
                f \in [1..n -> BOOLEAN] } : n \in 1..MaxFreeChain }

Chains == SingleTransitionChains \cup FreeChains

InitialStashes == { <<>>, << {"old"} >> }
InitialChanges == { {}, {"wip"} }

LocInit ==
    /\ chain \in Chains
    /\ head = Len(chain)
    /\ stash \in InitialStashes
    /\ wt \in InitialChanges
    /\ pc = "start"
    /\ idx = 0
    /\ current_sha = None
    /\ good_commit = None
    /\ lo = None /\ hi = None
    /\ found = FALSE
    /\ attempt = 0
    /\ orig = None
    /\ faulty_commit = None
    /\ result = EmptyResult
    /\ calls = 0
    /\ faults = 0
    /\ head0 = head /\ stash0 = stash /\ wt0 = wt

----------------------------------------------------------------------------
(***************************************************************************)
(* FaultyCommitAnalyzer.analyze, one action per loop iteration or phase.   *)
(***************************************************************************)

\* analyze step 1 enters find_last_good_commit: git log and git rev-parse HEAD
FindStart ==
    /\ pc = "start"
    /\ \E out \in {"ok", "git_fail"} :
         /\ faults + Fault(out) <= MaxFaults
         /\ faults' = faults + Fault(out)
         /\ IF out = "ok"
            THEN /\ current_sha' = head
                 /\ idx' = 1
                 /\ pc' = "search"
                 /\ UNCHANGED result
            ELSE \* outer except: return None, analyze reports no good commit
                 /\ result' = [EmptyResult EXCEPT !.error = "no_good_commit"]
                 /\ pc' = "done"
                 /\ UNCHANGED <<current_sha, idx>>
    /\ UNCHANGED <<chain, head, stash, wt, good_commit, lo, hi, found, attempt,
                   orig, faulty_commit, calls, head0, stash0, wt0>>
    /\ UNCHANGED notLocVars

\* SearchStepWith without the test of the checkout's return code
SearchStepWith_compiles_anyway(out, rok) ==
    /\ pc = "search"
    /\ idx < Len(git_log(Len(chain)))
    /\   LET commit_sha == git_log(Len(chain))[idx + 1]
             st == git_stash(stash, wt)
             at == git_checkout(head, commit_sha, out # "checkout_fail")
             good == out # "compile_timeout" /\ javac(chain, at, st.wt, FALSE)
             back == restore(commit_sha, st.stash, st.wt, current_sha, rok)
         IN  /\ (~good => rok)
             /\ faults + Fault(out) + RestoreFault(rok) <= MaxFaults
             /\ IF good
                THEN /\ head' = back.head
                     /\ stash' = back.stash
                     /\ wt' = back.wt
                     /\ good_commit' = commit_sha
                     /\ pc' = "bisect_start"
                     /\ idx' = idx
                ELSE /\ head' = git_checkout(head, commit_sha, out # "checkout_fail")
                     /\ stash' = st.stash
                     /\ wt' = st.wt
                     /\ idx' = idx + 1
                     /\ UNCHANGED <<good_commit, pc>>
             /\ calls' = calls + 1
             /\ faults' = faults + Fault(out) + RestoreFault(rok)
    /\ UNCHANGED <<chain, current_sha, lo, hi, found, attempt, orig,
                   faulty_commit, result, head0, stash0, wt0>>
    /\ UNCHANGED notLocVars

\* one iteration of the for loop of find_last_good_commit (idx >= 1)
SearchStepWith(out, rok) ==
    /\ pc = "search"
    /\ idx < Len(git_log(Len(chain)))
    /\   LET commit_sha == git_log(Len(chain))[idx + 1]
             st == git_stash(stash, wt)
             good == out = "compiled" /\ javac(chain, commit_sha, st.wt, FALSE)
             back == restore(commit_sha, st.stash, st.wt, current_sha, rok)
         IN  /\ (~good => rok)
             /\ faults + Fault(out) + RestoreFault(rok) <= MaxFaults
             /\ IF good
                THEN /\ head' = back.head
                     /\ stash' = back.stash
                     /\ wt' = back.wt
                     /\ good_commit' = commit_sha
                     /\ pc' = "bisect_start"
                     /\ idx' = idx
                ELSE /\ head' = git_checkout(head, commit_sha, out # "checkout_fail")
                     /\ stash' = st.stash
                     /\ wt' = st.wt
                     /\ idx' = idx + 1
                     /\ UNCHANGED <<good_commit, pc>>
             /\ calls' = IF out = "checkout_fail" THEN calls ELSE calls + 1
             /\ faults' = faults + Fault(out) + RestoreFault(rok)
    /\ UNCHANGED <<chain, current_sha, lo, hi, found, attempt, orig,
                   faulty_commit, result, head0, stash0, wt0>>
    /\ UNCHANGED notLocVars

\* the checkout fails, javac runs into its timeout, or javac answers
SearchStep ==
    \E out \in {"checkout_fail", "compile_timeout", "compiled"},
       rok \in BOOLEAN :
        SearchStepWith(out, rok)

SearchExhausted_bisects_anyway ==
    /\ pc = "search"
    /\ idx >= Len(git_log(Len(chain)))
    /\ \E rok \in BOOLEAN :
         LET back == restore(head, stash, wt, current_sha, rok)
         IN  /\ faults + RestoreFault(rok) <= MaxFaults
             /\ head' = back.head
             /\ stash' = back.stash
             /\ wt' = back.wt
             /\ faults' = faults + RestoreFault(rok)
    /\ pc' = "bisect_start"
    /\ UNCHANGED <<chain, idx, current_sha, good_commit, lo, hi, found, attempt,
                   orig, faulty_commit, calls, head0, stash0, wt0, result>>
    /\ UNCHANGED notLocVars

\* the loop ran out of candidates: restore, return None, analyze gives up
SearchExhausted ==
    /\ pc = "search"
    /\ idx >= Len(git_log(Len(chain)))
    /\ \E rok \in BOOLEAN :
         LET back == restore(head, stash, wt, current_sha, rok)
         IN  /\ faults + RestoreFault(rok) <= MaxFaults
             /\ head' = back.head
             /\ stash' = back.stash
             /\ wt' = back.wt
             /\ faults' = faults + RestoreFault(rok)
    /\ result' = [EmptyResult EXCEPT !.error = "no_good_commit"]
    /\ pc' = "done"
    /\ UNCHANGED <<chain, idx, current_sha, good_commit, lo, hi, found, attempt,
                   orig, faulty_commit, calls, head0, stash0, wt0>>
    /\ UNCHANGED notLocVars

\* run_git_bisect up to the loop: bisect reset, start, bad HEAD, good <good>
BisectStart ==
    /\ pc = "bisect_start"
    /\ \E out \in {"ok", "git_fail"} :
         /\ faults + Fault(out) <= MaxFaults
         /\ faults' = faults + Fault(out)
         /\ IF out = "ok" /\ good_commit < head
            THEN /\ lo' = good_commit
                 /\ hi' = head
                 /\ orig' = head
                 /\ found' = (head - good_commit = 1)
                 /\ head' = IF head - good_commit = 1 THEN head
                            ELSE bisect_mid(good_commit, head)
                 /\ attempt' = 0
                 /\ pc' = "bisect"
                 /\ UNCHANGED result
            ELSE \* a check=True git command raised: bisect reset, return None
                 /\ result' = [EmptyResult EXCEPT !.error = "bisect_failed"]
                 /\ pc' = "done"
                 /\ UNCHANGED <<lo, hi, orig, found, head, attempt>>
    /\ UNCHANGED <<chain, stash, wt, idx, current_sha, good_commit,
                   faulty_commit, calls, head0, stash0, wt0>>
    /\ UNCHANGED notLocVars

\* one iteration of the while loop of run_git_bisect
BisectStepWith(out, with_changes) ==
    /\ pc = "bisect"
    /\ attempt < MAX_BISECT_ATTEMPTS
    /\   LET m == bisect_mark(lo, hi, head,
                              javac(chain, head, wt, with_changes))
             done == m.hi - m.lo = 1
             tested == IF done THEN head ELSE bisect_mid(m.lo, m.hi)
         IN  /\ wt = {} => with_changes = chain[head]
             /\ faults + Fault(out) <= MaxFaults
             /\ faults' = faults + Fault(out)
             /\ IF out = "compiled" /\ m.lo < m.hi
                THEN /\ lo' = m.lo
                     /\ hi' = m.hi
                     /\ found' = done
                     /\ attempt' = attempt + 1
                     /\ IF done \/ attempt + 1 >= MAX_BISECT_ATTEMPTS - 1
                        THEN \* faulty_sha = git rev-parse HEAD, then bisect reset
                             /\ faulty_commit' = tested
                             /\ head' = orig
                             /\ pc' = "verify"
                        ELSE /\ head' = tested
                             /\ UNCHANGED <<faulty_commit, pc>>
                     /\ UNCHANGED result
                ELSE \* except: bisect reset, return None
                     /\ head' = orig
                     /\ result' = [EmptyResult EXCEPT !.error = "bisect_failed"]
                     /\ pc' = "done"
                     /\ UNCHANGED <<lo, hi, found, attempt, faulty_commit>>
    /\ calls' = calls + 1
    /\ UNCHANGED <<chain, stash, wt, idx, current_sha, good_commit, orig,
                   head0, stash0, wt0>>
    /\ UNCHANGED notLocVars

\* javac answers or runs into its timeout, or a git command fails
BisectStep ==
    \E out \in {"compiled", "compile_timeout", "git_fail"},
       with_changes \in BOOLEAN :
        BisectStepWith(out, with_changes)

\* Verify with a failed verification turned into a failed run
Verify_unverified_fails ==
    /\ pc = "verify"
    /\ \E out \in {"rev_parse_fail", "checkout_fail", "compile_timeout", "compiled"},
          rok \in BOOLEAN :
         LET parent_sha == faulty_commit - 1
             st == git_stash(stash, wt)
             at == git_checkout(head, parent_sha, out # "checkout_fail")
             back == restore(at, st.stash, st.wt, head, rok)
             verified == out = "compiled"
                             /\ javac(chain, parent_sha, st.wt, FALSE)
         IN  /\ faults + Fault(out) + RestoreFault(rok) <= MaxFaults
             /\ faults' = faults + Fault(out) + RestoreFault(rok)
             /\ IF out = "rev_parse_fail" \/ parent_sha < 1
                THEN \* git rev-parse <faulty>^ raised before anything was touched
                     /\ rok
                     /\ result' = [EmptyResult EXCEPT !.success = TRUE,
                                        !.faulty_commit = faulty_commit]
                     /\ UNCHANGED <<head, stash, wt, calls>>
                ELSE /\ head' = back.head
                     /\ stash' = back.stash
                     /\ wt' = back.wt
                     /\ calls' = IF out = "checkout_fail" THEN calls ELSE calls + 1
                     /\ result' = [EmptyResult EXCEPT !.success = verified,
                                        !.faulty_commit =
                                            IF verified THEN faulty_commit
                                            ELSE None,
                                        !.verified = verified]
    /\ pc' = "done"
    /\ UNCHANGED <<chain, idx, current_sha, good_commit, lo, hi, found, attempt,
                   orig, faulty_commit, head0, stash0, wt0>>
    /\ UNCHANGED notLocVars

\* analyze steps 3-7: verify_build_without_commit, then the reporting steps,
\* none of which raises; the result is marked successful
Verify ==
    /\ pc = "verify"
    /\ \E out \in {"rev_parse_fail", "checkout_fail", "compile_timeout", "compiled"},
          rok \in BOOLEAN :
         LET parent_sha == faulty_commit - 1
             st == git_stash(stash, wt)
             at == git_checkout(head, parent_sha, out # "checkout_fail")
             back == restore(at, st.stash, st.wt, head, rok)
             verified == out = "compiled"
                             /\ javac(chain, parent_sha, st.wt, FALSE)
         IN  /\ faults + Fault(out) + RestoreFault(rok) <= MaxFaults
             /\ faults' = faults + Fault(out) + RestoreFault(rok)
             /\ IF out = "rev_parse_fail" \/ parent_sha < 1
                THEN \* git rev-parse <faulty>^ raised before anything was touched
                     /\ rok
                     /\ result' = [EmptyResult EXCEPT !.success = TRUE,
                                        !.faulty_commit = faulty_commit]
                     /\ UNCHANGED <<head, stash, wt, calls>>
                ELSE /\ head' = back.head
                     /\ stash' = back.stash
                     /\ wt' = back.wt
                     /\ calls' = IF out = "checkout_fail" THEN calls ELSE calls + 1
                     /\ result' = [EmptyResult EXCEPT !.success = TRUE,
                                        !.faulty_commit = faulty_commit,
                                        !.verified = verified]
    /\ pc' = "done"
    /\ UNCHANGED <<chain, idx, current_sha, good_commit, lo, hi, found, attempt,
                   orig, faulty_commit, head0, stash0, wt0>>
    /\ UNCHANGED notLocVars

LocNext == FindStart \/ SearchStep \/ SearchExhausted \/ BisectStart
              \/ BisectStep \/ Verify

\* no locator run is in progress
LocIdle ==
    /\ chain = << FALSE >>
    /\ head = 1
    /\ stash = << >>
    /\ wt = {}
    /\ pc = "idle"
    /\ idx = 0
    /\ current_sha = None
    /\ good_commit = None
    /\ lo = None /\ hi = None
    /\ found = FALSE
    /\ attempt = 0
    /\ orig = None
    /\ faulty_commit = None
    /\ result = EmptyResult
    /\ calls = 0
    /\ faults = 0
    /\ head0 = head /\ stash0 = stash /\ wt0 = wt

----------------------------------------------------------------------------
(***************************************************************************)
(* One LearningDatabase object used through its public methods.            *)
(***************************************************************************)
NoOp == [op |-> "none"]

\* no learning store is in use
StoreIdle ==
    /\ now = 1
    /\ db_file = Missing
    /\ ldb = [p \in Procs |-> Unloaded]
    /\ last = NoOp

\* the effect of a store method on the object of process p and on the file
Apply(p, r) ==
    /\ ldb' = [ldb EXCEPT ![p] = r.data]
    /\ db_file' = IF r.saved THEN r.data ELSE db_file

RecordOutcome(p, rc, success) ==
    /\ ldb[p] # Unloaded
    /\ Attempts(ldb[p]) < MaxAttempts
    /\ \E r \in {record_outcome(ldb[p], rc, success, now)} :
           /\ Apply(p, r)
           /\ last' = [op |-> "record_outcome", proc |-> p, rc |-> rc,
                       success |-> success, ret |-> r.ret,
                       attempts |-> IF Known(ldb[p], rc)
                                    THEN ldb[p].root_causes[rc].total_attempts
                                    ELSE 0]
    /\ UNCHANGED now
    /\ UNCHANGED notStoreVars

PromotePattern(p, rc) ==
    /\ ldb[p] # Unloaded
    /\ ldb[p].metadata.promoted_patterns < MaxFlips
    /\ \E r \in {promote_pattern(ldb[p], rc, now)} :
           /\ Apply(p, r)
           /\ last' = [op |-> "promote_pattern", proc |-> p, rc |-> rc,
                       pre |-> ldb[p], ret |-> r.ret]
    /\ UNCHANGED now
    /\ UNCHANGED notStoreVars

DemotePattern(p, rc) ==
    /\ ldb[p] # Unloaded
    /\ ldb[p].metadata.demoted_patterns < MaxFlips
    /\ \E r \in {demote_pattern(ldb[p], rc, now)} :
           /\ Apply(p, r)
           /\ last' = [op |-> "demote_pattern", proc |-> p, rc |-> rc,
                       pre |-> ldb[p], ret |-> r.ret]
    /\ UNCHANGED now
    /\ UNCHANGED notStoreVars

\* time passes between two calls
Tick ==
    /\ now < MaxClock
    /\ now' = now + 1
    /\ UNCHANGED <<db_file, ldb, last>>
    /\ UNCHANGED notStoreVars

StoreInit ==
    /\ now = 1
    /\ db_file = Missing
    /\ ldb = [p \in Procs |-> IF p = "h1" THEN load_db(Missing, 1)
                                          ELSE Unloaded]
    /\ last = NoOp

StoreRecord == \E rc \in Categories, success \in BOOLEAN :
                   RecordOutcome("h1", rc, success)
StorePromote == \E rc \in Categories : PromotePattern("h1", rc)
StoreDemote == \E rc \in Categories : DemotePattern("h1", rc)

StoreNext == StoreRecord \/ StorePromote \/ StoreDemote \/ Tick

----------------------------------------------------------------------------
(***************************************************************************)
(* Webhook handlers: two processes, each a PRMergeHandler that is          *)
(* constructed, handles events and ends.  Every pull request has a fixed   *)
(* body and a fixed merged flag; its closed event may be delivered more    *)
(* than once, to either process.                                           *)
(***************************************************************************)

\* the root_causes lists a pull request body can carry
RootCauseLists ==
    UNION {[1..n -> Categories] : n \in 0..MaxRootCauses}

\* no pull request is being followed
LoopIdle ==
    /\ trk_file = Missing
    /\ trk = [p \in Procs |-> Unloaded]
    /\ pr_meta = [n \in PRs |-> NoMeta]
    /\ pr_merged = [n \in PRs |-> FALSE]
    /\ delivered = [n \in PRs |-> 0]
    /\ recorded = [rc \in Categories |-> 0]

HandlersInit ==
    /\ now = 1
    /\ db_file = Missing
    /\ ldb = [p \in Procs |-> Unloaded]
    /\ last = NoOp
    /\ trk_file = Missing
    /\ trk = [p \in Procs |-> Unloaded]
    /\ pr_meta \in [PRs -> RootCauseLists \cup {NoMeta}]
    /\ pr_merged \in [PRs -> BOOLEAN]
    /\ delivered = [n \in PRs |-> 0]
    /\ recorded = [rc \in Categories |-> 0]

\* PRMergeHandler(): the constructor loads the tracking data and the store
\* (PRTracker() first, then LearningDatabase(), neither call guarded: when
\* the second raises, no handler object exists)
HandlerConstruct(p) ==
    /\ ldb[p] = Unloaded
    /\ \E r \in {load_db(db_file, now)} :
           /\ ldb' = IF r = RecursionError THEN ldb
                     ELSE [ldb EXCEPT ![p] = r]
           /\ trk' = IF r = RecursionError THEN trk
                     ELSE [trk EXCEPT ![p] = load_tracking(trk_file, now)]
           /\ last' = [op |-> "construct", proc |-> p,
                       raised |-> r = RecursionError]
    /\ UNCHANGED <<now, db_file, trk_file, pr_meta, pr_merged, delivered,
                   recorded>>
    /\ UNCHANGED notLoopVars

\* the root causes a handled event records
Recorded(n) == IF pr_meta[n] = NoMeta THEN << >> ELSE pr_meta[n]

\* the record_outcome calls made so far by all handlers
AllRecorded ==
    LET RECURSIVE Sum(_)
        Sum(S) == IF S = {} THEN 0
                  ELSE LET rc == CHOOSE x \in S : TRUE
                       IN  recorded[rc] + Sum(S \ {rc})
    IN  Sum(Categories)

\* handle_webhook_event for an event of pull request n
HandleWebhookEvent(p, n, action, low_conf_title) ==
    /\ ldb[p] # Unloaded
    /\ delivered[n] < MaxDeliveries
    /\ AllRecorded + Len(Recorded(n)) <= MaxAttempts
    /\ \E r \in {handle_webhook_event(ldb[p], trk[p], n, action,
                                       low_conf_title, pr_merged[n],
                                       pr_meta[n], now)},
          terminal \in {action = "closed" /\ low_conf_title} :
           /\ ldb' = [ldb EXCEPT ![p] = r.db]
           /\ db_file' = IF r.recorded THEN r.db ELSE db_file
           /\ trk' = [trk EXCEPT ![p] = r.trk]
           /\ trk_file' = IF r.trk_saved THEN r.trk ELSE trk_file
           /\ delivered' = IF terminal THEN [delivered EXCEPT ![n] = @ + 1]
                                       ELSE delivered
           /\ recorded' = IF r.recorded
                          THEN [rc \in Categories |->
                                   recorded[rc] + Occurrences(pr_meta[n], rc)]
                          ELSE recorded
           /\ last' = IF terminal
                      THEN [op |-> "handle", pr |-> n, ret |-> r.ret]
                      ELSE [op |-> "ignore", ret |-> r.ret]
    /\ UNCHANGED <<now, pr_meta, pr_merged>>
    /\ UNCHANGED notLoopVars

\* the handler process ends; its objects are gone
HandlerExit(p) ==
    /\ ldb[p] # Unloaded
    /\ ldb' = [ldb EXCEPT ![p] = Unloaded]
    /\ trk' = [trk EXCEPT ![p] = Unloaded]
    /\ last' = [op |-> "exit", proc |-> p]
    /\ UNCHANGED <<now, db_file, trk_file, pr_meta, pr_merged, delivered,
                   recorded>>
    /\ UNCHANGED notLoopVars

HandlersConstruct == \E p \in Procs : HandlerConstruct(p)
HandlersHandle ==
    \E p \in Procs, n \in PRs, action \in {"closed", "opened"},
       low_conf_title \in BOOLEAN :
        HandleWebhookEvent(p, n, action, low_conf_title)
HandlersExit == \E p \in Procs : HandlerExit(p)

HandlersNext == HandlersConstruct \/ HandlersHandle \/ HandlersExit

----------------------------------------------------------------------------
(***************************************************************************)
(* The monitor: pull requests are registered with add-pr and followed by   *)
(* runs of monitor_open_prs.  Pull requests are decided in the order they  *)
(* were opened: a run finds the first few open ones merged or closed and   *)
(* the others still open, or GitHub does not answer for them.              *)
(***************************************************************************)
MonitoredCauses == {"risky:business_logic"}

MonitorInit ==
    /\ now = 1
    /\ db_file = Missing
    /\ ldb = [p \in Procs |-> IF p = "h1" THEN load_db(Missing, 1)
                                          ELSE Unloaded]
    /\ last = NoOp
    /\ trk_file = Missing
    /\ trk = [p \in Procs |-> IF p = "h1" THEN load_tracking(Missing, 1)
                                          ELSE Unloaded]
    /\ pr_meta = [n \in PRs |-> NoMeta]
    /\ pr_merged = [n \in PRs |-> FALSE]
    /\ delivered = [n \in PRs |-> 0]
    /\ recorded = [rc \in Categories |-> 0]

\* add-pr: the next pull request is tracked for a root cause
AddPr(root_cause) ==
    /\ Len(trk["h1"].prs) < MaxTracked
    /\ LET data == add_pr(trk["h1"], Len(trk["h1"].prs) + 1, root_cause, now)
       IN  /\ trk' = [trk EXCEPT !["h1"] = data]
           /\ trk_file' = data
    /\ last' = [op |-> "add_pr"]
    /\ UNCHANGED <<now, db_file, ldb, pr_meta, pr_merged, delivered,
                   recorded>>
    /\ UNCHANGED notLoopVars

\* how many entries of a run recorded an outcome for a root cause
RECURSIVE RecordedIn(_, _)
RecordedIn(done, rc) ==
    IF done = << >> THEN 0
    ELSE (IF Head(done).recorded /\ Head(done).root_cause = rc THEN 1 ELSE 0)
             + RecordedIn(Tail(done), rc)

\* one run of monitor_open_prs
MonitorOpenPrs(decided, others) ==
    /\ Len(decided) <= Len(get_open_prs(trk["h1"]))
    /\ \E r \in {LET open_prs == get_open_prs(trk["h1"])
                      answers == [n \in 1..MaxTracked |->
                                     IF \E i \in 1..Len(decided) :
                                            open_prs[i].pr_number = n
                                     THEN decided[CHOOSE i \in 1..Len(decided) :
                                                      open_prs[i].pr_number = n]
                                     ELSE others]
                  IN  monitor_loop(ldb["h1"], trk["h1"], open_prs, answers,
                                   now, << >>)} :
           /\ ldb' = [ldb EXCEPT !["h1"] = r.db]
           /\ db_file' = IF r.db # ldb["h1"] THEN r.db ELSE db_file
           /\ trk' = [trk EXCEPT !["h1"] = r.trk]
           /\ trk_file' = IF r.trk # trk["h1"] THEN r.trk ELSE trk_file
           /\ recorded' = [rc \in Categories |->
                              recorded[rc] + RecordedIn(r.done, rc)]
           /\ last' = [op |-> "monitor_open_prs", done |-> r.done]
    /\ UNCHANGED <<now, pr_meta, pr_merged, delivered>>
    /\ UNCHANGED notLoopVars

MonitorAdd == \E root_cause \in MonitoredCauses : AddPr(root_cause)
MonitorRun ==
    \E k \in 0..Min(MaxTracked, Len(get_open_prs(trk["h1"]))) :
        \E decided \in [1..k -> {"merged", "closed"}],
           others \in {"open", "fetch_failed"} :
            MonitorOpenPrs(decided, others)

MonitorNext == MonitorAdd \/ MonitorRun

----------------------------------------------------------------------------
(***************************************************************************)
(* The learning classifier: webhook requests, each served by a new         *)
(* PROutcomeTracker, and manual promotions with manage_learning.py.        *)
(***************************************************************************)
IssueNames == {<<"low", "business_logic">>, <<"security">>}
IssueLists == UNION {[1..n -> IssueNames] : n \in 0..MaxIssues}

LearnIdle ==
    /\ cdb = Unloaded
    /\ lc_calls = << >>
    /\ fix_history = Missing
    /\ session = None
    /\ attempted = {}
    /\ flast = NoOp

ClassifierIdle ==
    /\ cdb_file = Missing
    /\ clast = NoOp
    /\ LearnIdle

ClassifierInit ==
    /\ now = 1
    /\ db_file = Missing
    /\ ldb = [p \in Procs |-> Unloaded]
    /\ last = NoOp
    /\ cdb_file = Missing
    /\ clast = NoOp
    /\ LearnIdle

\* handle_webhook_request
HandleWebhookRequest(action, is_auto_fix_pr, merged, pr_body) ==
    /\ lc_load(cdb_file, now).metadata.total_fixes_attempted
           + Len(extract_error_patterns(pr_body)) <= MaxFixAttempts
    /\ lc_load(cdb_file, now).metadata.total_patterns_promoted
           < MaxPromotions
    /\ \E db \in {lc_load(cdb_file, now)} :
          \E r \in {process_github_webhook(db, action, is_auto_fix_pr,
                                            merged, pr_body, now)} :
             /\ cdb_file' = IF r.saved THEN r.data ELSE cdb_file
             /\ clast' = [op |-> "webhook", status |-> r.status,
                          patterns_recorded |-> r.patterns_recorded]
    /\ UNCHANGED <<now, db_file, ldb, last>>
    /\ UNCHANGED notClsVars

\* cmd_promote of manage_learning.py
CmdPromote(pattern, category) ==
    /\ lc_load(cdb_file, now).metadata.total_patterns_promoted
           < MaxPromotions
    /\ \E db \in {lc_load(cdb_file, now)} :
          \E r \in {lc_promote_pattern(db, pattern, category, now)} :
             /\ cdb_file' = IF r.saved THEN r.data ELSE cdb_file
             /\ clast' = [op |-> "promote_pattern",
                          key |-> pattern_key(category, pattern),
                          pre |-> db, ret |-> r.ret]
    /\ UNCHANGED <<now, db_file, ldb, last>>
    /\ UNCHANGED notClsVars

\* the bodies of the pull requests: issue entries among other lines
PrBodies == UNION {[1..n -> IssueNames \cup {OtherLine}] : n \in 0..MaxIssues}

ClassifierWebhook ==
    \E action \in {"closed", "opened"}, is_auto_fix_pr \in BOOLEAN,
       merged \in BOOLEAN, pr_body \in PrBodies :
        HandleWebhookRequest(action, is_auto_fix_pr, merged, pr_body)
ClassifierPromote ==
    \E pattern \in IssueNames :
        CmdPromote(pattern, extract_pattern(pattern).category)

ClassifierNext == ClassifierWebhook \/ ClassifierPromote \/ Tick

----------------------------------------------------------------------------
(***************************************************************************)
(* Specifications.                                                         *)
(***************************************************************************)
InitLocator == LocInit /\ StoreIdle /\ LoopIdle /\ ClassifierIdle
SpecLocator == InitLocator /\ [][LocNext]_vars

InitStore == StoreInit /\ LocIdle /\ LoopIdle /\ ClassifierIdle
SpecStore == InitStore /\ [][StoreNext]_vars

InitHandlers == HandlersInit /\ LocIdle /\ ClassifierIdle
SpecHandlers == InitHandlers /\ [][HandlersNext]_vars

InitMonitor == MonitorInit /\ LocIdle /\ ClassifierIdle
SpecMonitor == InitMonitor /\ [][MonitorNext]_vars

InitClassifier == ClassifierInit /\ LocIdle /\ LoopIdle
SpecClassifier == InitClassifier /\ [][ClassifierNext]_vars

----------------------------------------------------------------------------
(***************************************************************************)
(* Claims about the locator (checked under SpecLocator).                   *)
(***************************************************************************)

\* one compiling-to-non-compiling transition, the HEAD failing
SingleTransition(c) ==
    \E k \in 2..Len(c) : \A i \in 1..Len(c) : c[i] = (i < k)

\* the first commit of the chain that does not compile
FirstBad(c) == CHOOSE k \in 1..Len(c) : ~c[k] /\ \A i \in 1..(k - 1) : c[i]

\* C1: after any locator run, on every exit path, HEAD and the stash stack
\* equal their values before the run
C1_Restoration == pc = "done" => (head = head0 /\ stash = stash0)

\* C2 as stated: on a chain with a single transition at k, with every git and
\* javac invocation executing, analyze succeeds and reports the commit at k
C2_BisectionCorrect ==
    (pc = "done" /\ SingleTransition(chain) /\ faults = 0)
        => (result.success /\ result.faulty_commit = FirstBad(chain))

\* the same for a run that starts with a clean working tree and an empty
\* stash on a chain whose last compiling commit is one of the 19 commits
\* before HEAD that git log -20 lists
C2_BisectionCorrectCleanInWindow ==
    (/\ pc = "done" /\ SingleTransition(chain) /\ faults = 0
     /\ wt0 = {} /\ stash0 = << >>
     /\ Len(chain) - (FirstBad(chain) - 1) < GIT_LOG_COUNT)
        => (result.success /\ result.faulty_commit = FirstBad(chain))

\* and without the condition on the working tree and the stash
C2_BisectionCorrectInWindow ==
    (/\ pc = "done" /\ SingleTransition(chain) /\ faults = 0
     /\ Len(chain) - (FirstBad(chain) - 1) < GIT_LOG_COUNT)
        => (result.success /\ result.faulty_commit = FirstBad(chain))

\* a run that walked back several commits and bisected in several steps
C2_Witness ==
    /\ pc = "done" /\ SingleTransition(chain) /\ faults = 0
    /\ wt0 = {} /\ stash0 = << >>
    /\ Len(chain) - (FirstBad(chain) - 1) < GIT_LOG_COUNT
    /\ attempt >= 3
    /\ result.success /\ result.faulty_commit = FirstBad(chain)
    /\ result.faulty_commit < Len(chain)

----------------------------------------------------------------------------
(***************************************************************************)
(* Claims about the LearningDatabase methods (checked under SpecStore).    *)
(***************************************************************************)
TheStore == ldb["h1"]

AttemptsOf(data, rc) ==
    IF Known(data, rc) THEN data.root_causes[rc].total_attempts ELSE 0

\* the classifier's document as the next request loads it
ClassifierStore == lc_load(cdb_file, now)

LcAttemptsOf(data, key) ==
    IF lc_known(data, key) THEN data.patterns[key].total_attempts ELSE 0

\* the two properties of C5 for the classifier's patterns and
\* record_fix_attempt (an invariant of SpecClassifier)
C5_ClassifierCounters ==
    \A data \in {ClassifierStore} :
        /\ \A key \in DOMAIN data.patterns :
              data.patterns[key].successful_fixes
                  + data.patterns[key].failed_fixes
                      = data.patterns[key].total_attempts
        /\ \A name \in IssueNames, success \in BOOLEAN :
              \A info \in {extract_pattern(name)} :
                  LcAttemptsOf(record_fix_attempt(data, info.pattern,
                                                  info.category, success,
                                                  FALSE, now),
                               pattern_key(info.category, info.pattern))
                      = LcAttemptsOf(data, pattern_key(info.category,
                                                       info.pattern)) + 1

\* C5: success_count + failure_count = total_attempts for every root cause
\* after every call, and record_outcome adds exactly one to total_attempts
\* (an invariant of SpecStore)
C5_CountersConsistent ==
    /\ \A rc \in DOMAIN TheStore.root_causes :
          LET pattern == TheStore.root_causes[rc]
          IN  pattern.success_count + pattern.failure_count
                  = pattern.total_attempts
    /\ last.op = "record_outcome"
          => AttemptsOf(TheStore, last.rc) = last.attempts + 1

\* a record_outcome on a root cause with history, after a demotion
C5_Witness ==
    /\ last.op = "record_outcome"
    /\ last.attempts >= 2
    /\ TheStore.metadata.demoted_patterns >= 1
    /\ TheStore.root_causes[last.rc].failure_count >= 1
    /\ TheStore.root_causes[last.rc].success_count >= 1

\* C7: check_promotion is true exactly for a root cause that is not already
\* promoted and has 3 consecutive successes, or 3 successes outnumbering
\* the failures
C7_CheckPromotionSpec ==
    \A rc \in Categories :
        check_promotion(TheStore, rc)
            <=> /\ Known(TheStore, rc)
                /\ TheStore.root_causes[rc].confidence # "high"
                /\ \/ TheStore.root_causes[rc].consecutive_successes >= 3
                   \/ /\ TheStore.root_causes[rc].success_count >= 3
                      /\ TheStore.root_causes[rc].success_count
                             > TheStore.root_causes[rc].failure_count

\* C8: check_demotion is true exactly for a promoted root cause with 2
\* consecutive failures, or with more failures than successes over at least
\* 3 attempts
C8_CheckDemotionSpec ==
    \A rc \in Categories :
        check_demotion(TheStore, rc)
            <=> /\ Known(TheStore, rc)
                /\ TheStore.root_causes[rc].confidence = "high"
                /\ \/ TheStore.root_causes[rc].consecutive_failures >= 2
                   \/ /\ TheStore.root_causes[rc].failure_count
                             > TheStore.root_causes[rc].success_count
                      /\ TheStore.root_causes[rc].total_attempts >= 3

\* check_demotion holds through the count rule alone, and fails for a root
\* cause with a failure that is not promoted
C8_Witness ==
    \E rc \in Categories :
        /\ check_demotion(TheStore, rc)
        /\ TheStore.root_causes[rc].consecutive_failures < 2
        /\ \E other \in Categories :
              /\ Known(TheStore, other)
              /\ TheStore.root_causes[other].confidence = "low"
              /\ TheStore.root_causes[other].consecutive_failures >= 1
              /\ ~check_demotion(TheStore, other)

\* C10: demote_pattern on a promoted root cause clears the promotion and the
\* success streak and leaves its other counters and every other root cause
\* alone; on a root cause that is not promoted it changes nothing
C10_DemoteFrame ==
    last.op = "demote_pattern" =>
        IF Known(last.pre, last.rc)
           /\ last.pre.root_causes[last.rc].confidence = "high"
        THEN LET before == last.pre.root_causes[last.rc]
                 after == TheStore.root_causes[last.rc]
             IN  /\ after.confidence = "low"
                 /\ after.consecutive_successes = 0
                 /\ after.consecutive_failures = before.consecutive_failures
                 /\ after.success_count = before.success_count
                 /\ after.failure_count = before.failure_count
                 /\ after.total_attempts = before.total_attempts
                 /\ DOMAIN TheStore.root_causes = DOMAIN last.pre.root_causes
                 /\ \A rc \in DOMAIN TheStore.root_causes \ {last.rc} :
                       TheStore.root_causes[rc] = last.pre.root_causes[rc]
        ELSE TheStore = last.pre /\ db_file \in {Missing, last.pre}

\* a demotion of a promoted root cause that had both streak counters at work
C10_Witness ==
    /\ last.op = "demote_pattern"
    /\ Known(last.pre, last.rc)
    /\ last.pre.root_causes[last.rc].confidence = "high"
    /\ last.pre.root_causes[last.rc].consecutive_failures >= 1
    /\ last.pre.root_causes[last.rc].success_count >= 1
    /\ Cardinality(DOMAIN last.pre.root_causes) = 2
    /\ TheStore.root_causes[last.rc].confidence = "low"

----------------------------------------------------------------------------
(***************************************************************************)
(* Claims about the webhook handlers (checked under SpecHandlers), the     *)
(* monitor (SpecMonitor) and the classifier (SpecClassifier).              *)
(***************************************************************************)

\* how often the delivered events attribute an outcome to a root cause, each
\* event counted once
Attributed(rc) ==
    LET RECURSIVE Sum(_)
        Sum(S) == IF S = {} THEN 0
                  ELSE LET n == CHOOSE x \in S : TRUE
                       IN  Occurrences(Recorded(n), rc) + Sum(S \ {n})
    IN  Sum({n \in PRs : delivered[n] >= 1})

\* C3: every outcome recorded by any process is in the persisted store
C3_NoLostUpdate ==
    \A rc \in Categories :
        AttemptsOf(load_db(db_file, now), rc) = recorded[rc]

\* C4: however often a terminal event is delivered, no store holds more
\* attempts for a root cause than one delivery of each event accounts for
C4_TerminalEventIdempotent ==
    \A p \in Procs, rc \in Categories :
        ldb[p] # Unloaded => AttemptsOf(ldb[p], rc) <= Attributed(rc)

\* C6: every root cause with a recorded attempt has exactly one of its two
\* streak counters nonzero, after each run of the feedback loop
C6_OneStreakNonzero ==
    \A rc \in DOMAIN TheStore.root_causes :
        TheStore.root_causes[rc].total_attempts >= 1
            => (TheStore.root_causes[rc].consecutive_successes # 0)
                   # (TheStore.root_causes[rc].consecutive_failures # 0)

\* C9: promote_pattern on a root cause or pattern that is already promoted
\* leaves the document as it was: the promotion date, the count of promoted
\* patterns and the history included
C9_PromoteIdempotent ==
    /\ (/\ last.op = "promote_pattern"
         /\ Known(last.pre, last.rc)
         /\ last.pre.root_causes[last.rc].confidence = "high")
            => TheStore = last.pre
    /\ (/\ clast.op = "promote_pattern"
         /\ lc_known(clast.pre, clast.key)
         /\ clast.pre.patterns[clast.key].promoted_to_high)
            => /\ cdb_file.patterns = clast.pre.patterns
               /\ cdb_file.pattern_history = clast.pre.pattern_history
               /\ cdb_file.metadata.total_patterns_promoted
                      = clast.pre.metadata.total_patterns_promoted

----------------------------------------------------------------------------
(***************************************************************************)
(* Re-promotion after a demotion (checked under SpecStore).                *)
(***************************************************************************)

\* C11: right after a root cause was demoted, one further successful outcome
\* does not make check_promotion true for it
C11_NoInstantRepromotion ==
    (/\ last.op = "demote_pattern"
     /\ Known(last.pre, last.rc)
     /\ last.pre.root_causes[last.rc].confidence = "high")
        => ~check_promotion(record_outcome(TheStore, last.rc, TRUE, now).data,
                            last.rc)

----------------------------------------------------------------------------
(***************************************************************************)
(* classify_error_confidence of build_fix_v2.py and of build_fix.py.       *)
(* An error text is the set of the fragments it contains; a regular        *)
(* expression is the set of its alternatives, and re.search finds one of   *)
(* them in the text it is given.                                           *)
(***************************************************************************)

\* fragments of compiler output, as javac and the JVM write them
Fragments ==
    {"cannot find symbol", "symbol: method", "symbol: class",
     "NullPointerException", "logic error"}

ErrorTexts == SUBSET Fragments

\* str.lower() on a fragment
lower_fragment(f) ==
    IF f = "NullPointerException" THEN "nullpointerexception" ELSE f

\* error_message.lower()
lower(text) == {lower_fragment(f) : f \in text}

\* re.search(pattern, text): case-sensitive, some alternative occurs
re_search(pattern, text) == pattern \cap text # {}

\* SAFE_ERROR_PATTERNS and RISKY_ERROR_PATTERNS in dictionary order
SAFE_ERROR_PATTERNS ==
    << [category |-> "missing_import",
        pattern |-> {"cannot find symbol", "import not found",
                     "unresolved import"}],
       [category |-> "formatting",
        pattern |-> {"unexpected token", "invalid syntax", "malformed"}],
       [category |-> "syntax_error",
        pattern |-> {"class.*interface.*enum.*record expected",
                     "unexpected.*token", "mismatched", "unclosed"}],
       [category |-> "test_failure",
        pattern |-> {"AssertionError", "Test.*failed", "FAILED"}],
       [category |-> "lint_issue",
        pattern |-> {"warning", "unused variable", "dead code"}] >>

RISKY_ERROR_PATTERNS ==
    << [category |-> "business_logic",
        pattern |-> {"NullPointerException", "IndexOutOfBoundsException",
                     "logic error", "method.*not found",
                     "RuntimeException"}],
       [category |-> "security",
        pattern |-> {"SQL injection", "XSS", "vulnerability", "deprecated",
                     "insecure"}],
       [category |-> "migration",
        pattern |-> {"database", "schema", "ALTER TABLE", "migration"}] >>

\* r'symbol:\s*(method|variable)'
SYMBOL_MARKER == {"symbol: method", "symbol: variable"}

\* for ... in patterns.items(): the first rule whose pattern is found, or 0
first_match(patterns, text) ==
    IF \E i \in 1..Len(patterns) : re_search(patterns[i].pattern, text)
    THEN CHOOSE i \in 1..Len(patterns) :
             /\ re_search(patterns[i].pattern, text)
             /\ \A j \in 1..(i - 1) : ~re_search(patterns[j].pattern, text)
    ELSE 0

\* generate_error_signature without a source file
generate_error_signature(text) ==
    IF "cannot find symbol" \in lower(text)
    THEN IF "symbol: variable" \in lower(text)
         THEN "cannot_find_symbol:variable"
         ELSE IF "symbol: method" \in lower(text)
         THEN "cannot_find_symbol:method"
         ELSE IF "symbol: class" \in lower(text)
         THEN "cannot_find_symbol:class"
         ELSE "cannot_find_symbol"
    ELSE "unknown"

\* the methods of the LearningDatabase class build_fix_v2.py imports
LearningDatabaseMethods ==
    {"__init__", "_load", "save", "record_outcome", "check_promotion",
     "promote_pattern", "check_demotion", "demote_pattern"}

\* STEP 1, the try block: a method the class does not have raises
\* AttributeError, which the except clause swallows.  What the methods would
\* return is defined nowhere, so the block either raises or finds nothing.
learned_lookup(data, signature, error_lower) ==
    IF "get_pattern_by_signature" \notin LearningDatabaseMethods
    THEN "AttributeError"
    ELSE IF /\ re_search(SYMBOL_MARKER, error_lower)
            /\ "get_pattern_confidence" \notin LearningDatabaseMethods
    THEN "AttributeError"
    ELSE "not learned"

\* STEP 2 and STEP 3 of build_fix_v2.classify_error_confidence; confidence
\* scores are in tenths
classify_by_rules(error_lower) ==
    LET safe == first_match(SAFE_ERROR_PATTERNS, error_lower)
        risky == first_match(RISKY_ERROR_PATTERNS, error_lower)
    IN  IF safe # 0
        THEN [category |-> <<"safe", SAFE_ERROR_PATTERNS[safe].category>>,
              confidence |-> 9, match_type |-> "RULE_HIGH"]
        ELSE IF re_search(SYMBOL_MARKER, error_lower)
        THEN [category |-> <<"risky", "business_logic">>,
              confidence |-> 1, match_type |-> "LOW"]
        ELSE IF risky # 0
        THEN [category |-> <<"risky", RISKY_ERROR_PATTERNS[risky].category>>,
              confidence |-> 1, match_type |-> "LOW"]
        ELSE [category |-> <<"unknown">>, confidence |-> 5,
              match_type |-> "LOW"]

\* build_fix_v2.classify_error_confidence
classify_error_confidence(data, text, enable_learning) ==
    LET error_lower == lower(text)
        learned == IF enable_learning
                   THEN learned_lookup(data, generate_error_signature(text),
                                       error_lower)
                   ELSE "not learned"
    IN  IF learned \in {"AttributeError", "not learned"}
        THEN classify_by_rules(error_lower)
        ELSE [category |-> <<"risky", "business_logic">>, confidence |-> 9,
              match_type |-> "LEARNED_HIGH"]

\* the two dictionaries of build_fix.py
SAFE_ERROR_PATTERNS_V1 ==
    << [category |-> "missing_import",
        pattern |-> {"cannot find symbol", "import not found",
                     "unresolved import"}],
       [category |-> "formatting",
        pattern |-> {"unexpected token", "invalid syntax", "malformed"}],
       [category |-> "test_failure",
        pattern |-> {"AssertionError", "Test.*failed", "FAILED"}],
       [category |-> "lint_issue",
        pattern |-> {"warning", "unused variable", "dead code"}] >>

RISKY_ERROR_PATTERNS_V1 ==
    << [category |-> "business_logic",
        pattern |-> {"NullPointerException", "IndexOutOfBoundsException",
                     "logic error"}],
       [category |-> "security",
        pattern |-> {"SQL injection", "XSS", "vulnerability", "deprecated",
                     "insecure"}],
       [category |-> "migration",
        pattern |-> {"database", "schema", "ALTER TABLE", "migration"}] >>

\* build_fix.classify_error_confidence
classify_error_confidence_v1(text) ==
    LET error_lower == lower(text)
        safe == first_match(SAFE_ERROR_PATTERNS_V1, error_lower)
        risky == first_match(RISKY_ERROR_PATTERNS_V1, error_lower)
    IN  IF risky # 0
        THEN [category |-> <<"risky",
                             RISKY_ERROR_PATTERNS_V1[risky].category>>,
              confidence |-> 1]
        ELSE IF safe # 0
        THEN [category |-> <<"safe", SAFE_ERROR_PATTERNS_V1[safe].category>>,
              confidence |-> 9]
        ELSE [category |-> <<"unknown">>, confidence |-> 5]

\* the root cause a category is stored under ("risky:business_logic")
root_cause_of(category) ==
    IF Len(category) = 2 THEN category[1] \o ":" \o category[2]
    ELSE category[1]

\* the root causes whose confidence is "high" in a document
Promoted(data) ==
    {rc \in DOMAIN data.root_causes : data.root_causes[rc].confidence = "high"}

(***************************************************************************)
(* The build classifying error texts while the feedback loop records       *)
(* outcomes for risky:business_logic and promotes or demotes it.           *)
(***************************************************************************)
Classify(text, enable_learning) ==
    /\ \E data \in {load_db(db_file, now)} :
          clast' = [op |-> "classify", text |-> text,
                    promoted |-> Promoted(data),
                    result |-> classify_error_confidence(data, text,
                                                         enable_learning)]
    /\ UNCHANGED <<cdb_file, locVars, storeVars, loopVars, learnVars, fixVars>>

ClassifyV1(text) ==
    /\ clast' = [op |-> "classify_v1", text |-> text,
                 result |-> classify_error_confidence_v1(text)]
    /\ UNCHANGED <<cdb_file, locVars, storeVars, loopVars, learnVars, fixVars>>

BuildClassify ==
    \E text \in ErrorTexts, enable_learning \in BOOLEAN :
        Classify(text, enable_learning)
BuildClassifyV1 == \E text \in ErrorTexts : ClassifyV1(text)
BuildRecord ==
    \E success \in BOOLEAN :
        RecordOutcome("h1", "risky:business_logic", success)
BuildPromote == PromotePattern("h1", "risky:business_logic")
BuildDemote == DemotePattern("h1", "risky:business_logic")

BuildNext ==
    BuildClassify \/ BuildClassifyV1 \/ BuildRecord \/ BuildPromote
        \/ BuildDemote

InitBuild == StoreInit /\ LocIdle /\ LoopIdle /\ ClassifierIdle
SpecBuild == InitBuild /\ [][BuildNext]_vars

----------------------------------------------------------------------------
(***************************************************************************)
(* Claims about classification (checked under SpecBuild).                  *)
(***************************************************************************)
RiskyCategories ==
    {<<"risky", RISKY_ERROR_PATTERNS[i].category>> :
         i \in 1..Len(RISKY_ERROR_PATTERNS)}

\* C12: a classified text whose rule-based category is promoted in the store
\* gets (category, 0.9, LEARNED_HIGH), any other text its rule-based result
C12_LearnedOverrides ==
    clast.op = "classify" =>
        LET rule == classify_by_rules(lower(clast.text))
        IN  IF root_cause_of(rule.category) \in clast.promoted
            THEN clast.result = [category |-> rule.category, confidence |-> 9,
                                 match_type |-> "LEARNED_HIGH"]
            ELSE clast.result = rule

\* C13: a text in which a RISKY pattern and a SAFE pattern are both found,
\* and whose category is not promoted, is classified risky with confidence
\* 0.1 (tier LOW), by build_fix_v2.py and by build_fix.py
C13_RiskyBeforeSafe ==
    (/\ clast.op \in {"classify", "classify_v1"}
     /\ first_match(RISKY_ERROR_PATTERNS, lower(clast.text)) # 0
     /\ first_match(SAFE_ERROR_PATTERNS, lower(clast.text)) # 0
     /\ clast.op = "classify" => clast.promoted = {})
        => /\ clast.result.category \in RiskyCategories
           /\ clast.result.confidence = 1
           /\ clast.op = "classify" => clast.result.match_type = "LOW"

\* the half of C13 that concerns build_fix.py
C13_RiskyBeforeSafeV1 ==
    (/\ clast.op = "classify_v1"
     /\ first_match(RISKY_ERROR_PATTERNS_V1, lower(clast.text)) # 0
     /\ first_match(SAFE_ERROR_PATTERNS_V1, lower(clast.text)) # 0)
        => /\ clast.result.category \in RiskyCategories
           /\ clast.result.confidence = 1

\* C14: a text with a method or variable symbol marker is classified
\* (risky:business_logic, 0.1, LOW) while that category is not promoted,
\* whatever else it contains; a class-level "cannot find symbol" text is
\* classified (safe:missing_import, 0.9, RULE_HIGH) with an empty store
C14_SymbolMarkerRisky ==
    clast.op = "classify" =>
        /\ (/\ re_search(SYMBOL_MARKER, lower(clast.text))
            /\ "risky:business_logic" \notin clast.promoted)
               => clast.result = [category |-> <<"risky", "business_logic">>,
                                  confidence |-> 1, match_type |-> "LOW"]
        /\ (/\ clast.text = {"cannot find symbol", "symbol: class"}
            /\ clast.promoted = {})
               => clast.result = [category |-> <<"safe", "missing_import">>,
                                  confidence |-> 9,
                                  match_type |-> "RULE_HIGH"]

\* the class-level half of C14
C14_ClassLevelSafe ==
    (/\ clast.op = "classify"
     /\ clast.text = {"cannot find symbol", "symbol: class"}
     /\ clast.promoted = {})
        => clast.result = [category |-> <<"safe", "missing_import">>,
                           confidence |-> 9, match_type |-> "RULE_HIGH"]

----------------------------------------------------------------------------
(***************************************************************************)
(* Claims about promotion and demotion in the feedback loop.               *)
(***************************************************************************)

\* C15: a pattern is promoted only after check_promotion was true for it.
\* check_promotion is true only with SUCCESS_THRESHOLD consecutive
\* successes, so every promoted pattern has at least that many successes.
C15_PromotedOnlyAfterCheck ==
    \A data \in {ClassifierStore} :
        \A key \in DOMAIN data.patterns :
            data.patterns[key].promoted_to_high
                => data.patterns[key].successful_fixes >= LC_SUCCESS_THRESHOLD

(***************************************************************************)
(* One PRMergeHandler working on the store that earlier runs of the        *)
(* monitor left behind: it has seen some merged pull requests for          *)
(* risky:business_logic and promoted the root cause when its check said so.*)
(***************************************************************************)
RECURSIVE monitored_merges(_, _, _)
monitored_merges(data, k, t) ==
    IF k = 0 THEN data
    ELSE LET rc == "risky:business_logic"
             d1 == record_outcome(monitored_merges(data, k - 1, t), rc,
                                  TRUE, t).data
             d2 == IF check_promotion(d1, rc)
                   THEN promote_pattern(d1, rc, t).data ELSE d1
         IN  IF check_demotion(d2, rc) THEN demote_pattern(d2, rc, t).data
             ELSE d2

PriorStores ==
    {Missing} \cup {monitored_merges(NewDatabase(1), k, 1) : k \in 1..MaxPrior}

FeedbackInit ==
    /\ now = 1
    /\ db_file \in PriorStores
    /\ ldb = [p \in Procs |-> Unloaded]
    /\ last = NoOp
    /\ trk_file = Missing
    /\ trk = [p \in Procs |-> Unloaded]
    /\ pr_meta \in [PRs -> RootCauseLists \cup {NoMeta}]
    /\ pr_merged \in [PRs -> BOOLEAN]
    /\ delivered = [n \in PRs |-> 0]
    /\ recorded = [rc \in Categories |-> 0]

FeedbackConstruct == HandlerConstruct("h1")
FeedbackHandle ==
    \E n \in PRs, action \in {"closed", "opened"}, low_conf_title \in BOOLEAN :
        HandleWebhookEvent("h1", n, action, low_conf_title)
FeedbackExit == HandlerExit("h1")

FeedbackNext == FeedbackConstruct \/ FeedbackHandle \/ FeedbackExit

InitFeedback == FeedbackInit /\ LocIdle /\ ClassifierIdle
SpecFeedback == InitFeedback /\ [][FeedbackNext]_vars

\* the root causes the event last handled was attributed to
HandledCauses == {Recorded(last.pr)[i] : i \in 1..Len(Recorded(last.pr))}

\* C16: when a merged event has been handled, every attributed root cause
\* for which check_promotion is true is promoted in the handler's store
C16_PromotedAfterMerge ==
    (last.op = "handle" /\ last.ret /\ pr_merged[last.pr])
        => \A rc \in HandledCauses :
               check_promotion(TheStore, rc)
                   => TheStore.root_causes[rc].confidence = "high"

\* C17: when a closed-without-merge event has been handled and it was at
\* least the second failure in a row for an attributed root cause, that
\* root cause is not promoted
C17_DemotedAfterTwoFailures ==
    (last.op = "handle" /\ last.ret /\ ~pr_merged[last.pr])
        => \A rc \in HandledCauses :
               TheStore.root_causes[rc].consecutive_failures
                       >= FAILURE_THRESHOLD
                   => TheStore.root_causes[rc].confidence # "high"

----------------------------------------------------------------------------
(***************************************************************************)
(* Loading a store.  Process h1 uses a LearningDatabase it constructed     *)
(* when no file existed; a write that is cut short leaves a file that does *)
(* not parse, and process h2 constructs a LearningDatabase over whatever   *)
(* is on disk.  The classifier's store is constructed over its own file.   *)
(***************************************************************************)

\* a save that is interrupted leaves learning_db.json unparsable
TruncateStoreFile ==
    /\ db_file \notin {Missing, Corrupt}
    /\ db_file' = Corrupt
    /\ last' = [op |-> "truncate"]
    /\ UNCHANGED <<now, ldb>>
    /\ UNCHANGED notStoreVars

\* LearningDatabase(): __init__ assigns self.data = self._load()
OpenStore(p) ==
    /\ ldb[p] = Unloaded
    /\ \E r \in {load_db(db_file, now)} :
           /\ ldb' = IF r = RecursionError THEN ldb
                     ELSE [ldb EXCEPT ![p] = r]
           /\ last' = [op |-> "open", proc |-> p,
                       corrupt |-> db_file = Corrupt,
                       raised |-> r = RecursionError]
    /\ UNCHANGED <<now, db_file>>
    /\ UNCHANGED notStoreVars

\* the process that opened the store ends
CloseStore(p) ==
    /\ ldb[p] # Unloaded
    /\ ldb' = [ldb EXCEPT ![p] = Unloaded]
    /\ last' = [op |-> "close", proc |-> p]
    /\ UNCHANGED <<now, db_file>>
    /\ UNCHANGED notStoreVars

\* learning_classifier.LearningDatabase(): the same constructor
OpenClassifierStore ==
    /\ \E r \in {lc_load(cdb_file, now)} :
           clast' = [op |-> "open", corrupt |-> cdb_file = Corrupt,
                     raised |-> r = RecursionError,
                     patterns |-> IF r = RecursionError THEN << >>
                                  ELSE r.patterns]
    /\ UNCHANGED <<cdb_file, locVars, storeVars, loopVars, learnVars, fixVars>>

\* record_outcome by a process that dies inside save: open(path, 'w') has
\* emptied the file and json.dump has written only a part of the new
\* document, which does not parse whatever its length (the closing brace is
\* written last)
RecordOutcomeCrash(p, rc, success) ==
    /\ ldb[p] # Unloaded
    /\ Attempts(ldb[p]) < MaxAttempts
    /\ \E r \in {record_outcome(ldb[p], rc, success, now)} :
           /\ r.saved
           /\ db_file' = Corrupt
           /\ ldb' = [ldb EXCEPT ![p] = Unloaded]
           /\ last' = [op |-> "crash", proc |-> p, previous |-> db_file,
                       new |-> r.data]
    /\ UNCHANGED now
    /\ UNCHANGED notStoreVars

LoadInit ==
    /\ StoreInit
    /\ cdb_file \in {Missing, Corrupt}
    /\ clast = NoOp
    /\ LearnIdle

LoadTruncate == TruncateStoreFile
LoadOpen == OpenStore("h2")
LoadClose == CloseStore("h2")
LoadOpenClassifier == OpenClassifierStore
LoadCrash == \E rc \in Categories, success \in BOOLEAN :
                 RecordOutcomeCrash("h2", rc, success)

LoadNext ==
    \/ StoreRecord
    \/ LoadTruncate \/ LoadOpen \/ LoadClose \/ LoadOpenClassifier
    \/ LoadCrash

InitLoad == LoadInit /\ LocIdle /\ LoopIdle
SpecLoad == InitLoad /\ [][LoadNext]_vars

\* C18: constructing a LearningDatabase over a file that exists and does
\* not parse returns, and the object it yields has no categories; the same
\* holds for the classifier's store.
C18_CorruptStoreRecovered ==
    /\ (last.op = "open" /\ last.corrupt)
           => /\ ~last.raised
              /\ ldb[last.proc] # Unloaded
              /\ DOMAIN ldb[last.proc].root_causes = {}
    /\ (clast.op = "open" /\ clast.corrupt)
           => /\ ~clast.raised
              /\ DOMAIN clast.patterns = {}

----------------------------------------------------------------------------
(***************************************************************************)
(* The loop of run_git_bisect against a git whose answers are not derived  *)
(* from the chain: after every mark the bisect log may or may not carry    *)
(* the line "first bad commit" (the range between good and bad may be of   *)
(* any size; a git older than 1.8.4 never writes that line), and git has   *)
(* checked out some commit of the range.  The run starts where BisectStart *)
(* leaves it.                                                              *)
(***************************************************************************)
OpaqueChains ==
    UNION { { [i \in 1..n |-> i < k] : k \in 2..n } : n \in 3..MaxFreeChain }

OpaqueBisectInit ==
    /\ chain \in OpaqueChains
    /\ orig = Len(chain)
    /\ head \in 2..(Len(chain) - 1)
    /\ stash = << >>
    /\ wt = {}
    /\ pc = "bisect"
    /\ idx = 1
    /\ current_sha = Len(chain)
    /\ good_commit = 1
    /\ lo = 1 /\ hi = Len(chain)
    /\ found = FALSE
    /\ attempt = 0
    /\ faulty_commit = None
    /\ result = EmptyResult
    /\ calls = 1
    /\ faults = 0
    /\ head0 = Len(chain) /\ stash0 = stash /\ wt0 = wt

\* one iteration of the while loop of run_git_bisect: javac, rev-parse,
\* bisect good/bad, bisect log, and the test of line 236.  The statements
\* after the loop (bisect reset, return None) need the loop to end with
\* attempt = MAX_BISECT_ATTEMPTS, and the iteration with
\* attempt = MAX_BISECT_ATTEMPTS - 1 has returned before.
OpaqueBisectStep ==
    /\ pc = "bisect"
    /\ attempt < MAX_BISECT_ATTEMPTS
    /\ \E out \in {"compiled", "git_fail"}, first_bad_in_log \in BOOLEAN,
          next \in 2..Len(chain) :
         /\ faults + Fault(out) <= MaxFaults
         /\ faults' = faults + Fault(out)
         /\ IF out = "compiled"
            THEN /\ attempt' = attempt + 1
                 /\ found' = first_bad_in_log
                 /\ IF \/ first_bad_in_log
                       \/ attempt + 1 >= MAX_BISECT_ATTEMPTS - 1
                    THEN \* faulty_sha = git rev-parse HEAD, then bisect reset
                         /\ faulty_commit' = next
                         /\ head' = orig
                         /\ pc' = "verify"
                    ELSE /\ head' = next
                         /\ UNCHANGED <<faulty_commit, pc>>
                 /\ UNCHANGED result
            ELSE \* except: bisect reset, return None
                 /\ head' = orig
                 /\ result' = [EmptyResult EXCEPT !.error = "bisect_failed"]
                 /\ pc' = "done"
                 /\ UNCHANGED <<found, attempt, faulty_commit>>
    /\ calls' = calls + 1
    /\ UNCHANGED <<chain, stash, wt, idx, current_sha, good_commit, lo, hi,
                   orig, head0, stash0, wt0>>
    /\ UNCHANGED notLocVars

OpaqueBisectNext == OpaqueBisectStep \/ Verify

InitOpaqueBisect ==
    OpaqueBisectInit /\ StoreIdle /\ LoopIdle /\ ClassifierIdle
SpecOpaqueBisect == InitOpaqueBisect /\ [][OpaqueBisectNext]_vars

\* C19: a run whose bisect used up its attempts without git reporting the
\* first bad commit ends with success = false and no faulty commit.
C19_InconclusiveIsFailure ==
    (pc = "done" /\ ~found /\ attempt >= MAX_BISECT_ATTEMPTS - 1)
        => (~result.success /\ result.faulty_commit = None)

----------------------------------------------------------------------------
(***************************************************************************)
(* Compile calls of one locator run.                                       *)
(***************************************************************************)
\* the least k with 2^k >= n
RECURSIVE CeilLog2(_)
CeilLog2(n) == IF n <= 1 THEN 0 ELSE 1 + CeilLog2((n + 1) \div 2)

\* a finished run on a clean tree in which every git and javac call worked
C20_CleanRun ==
    /\ pc = "done"
    /\ chain \in SingleTransitionChains
    /\ faults = 0
    /\ wt0 = {} /\ stash0 = << >>
    /\ result.success

\* the chain [good, good, good, bad, bad]; index 3 is commit 4
C20_FiveChain == <<TRUE, TRUE, TRUE, FALSE, FALSE>>

\* the run on the five-commit chain reports commit 4
C20_FiveChainLocated ==
    (C20_CleanRun /\ chain = C20_FiveChain) => result.faulty_commit = 4

\* the run on the five-commit chain makes at most 3 compile calls
C20_FiveChainCalls ==
    (C20_CleanRun /\ chain = C20_FiveChain) => calls <= 3

\* compile calls are within ceil(log2(N)) plus a constant, here 5
C20_LogarithmicCalls ==
    C20_CleanRun => calls <= CeilLog2(Len(chain)) + 5

\* C20: a locator run on a chain of length N with a single transition makes
\* at most ceil(log2(N)) plus a constant compile calls; on the chain
\* [good, good, good, bad, bad] it returns the commit at index 3 with at
\* most 3 compile calls.
C20_CompileCalls ==
    /\ C20_LogarithmicCalls
    /\ C20_FiveChainLocated
    /\ C20_FiveChainCalls

----------------------------------------------------------------------------
(***************************************************************************)
(* The window of the last-good search.                                     *)
(***************************************************************************)
\* the candidates the search has compiled or skipped so far
CandidatesExamined ==
    IF pc = "search" THEN idx - 1
    ELSE IF good_commit # None THEN head0 - good_commit
    ELSE 0

\* the search goes from HEAD's parent towards older commits and stops at the
\* first commit that compiles
C21_NewestFirst ==
    (good_commit # None /\ faults = 0)
        => /\ good_commit < head0
           /\ chain[good_commit]
           /\ \A c \in (good_commit + 1)..(head0 - 1) : ~chain[c]

\* a search that found nothing ends the run without a revision
C21_NoneIsInconclusive ==
    (pc = "done" /\ good_commit = None)
        => (~result.success /\ result.faulty_commit = None)

\* C21: the last-good search goes newest-first, never tests HEAD, examines
\* at most MAX_HISTORY_SEARCH commits and returns the first that compiles;
\* when none compiles the run ends without a revision.
C21_SearchWindow ==
    /\ C21_NewestFirst
    /\ C21_NoneIsInconclusive
    /\ CandidatesExamined <= MAX_HISTORY_SEARCH

----------------------------------------------------------------------------
(***************************************************************************)
(* Verification of the located commit.                                     *)
(***************************************************************************)
\* the located commit has a parent and the parent compiles
ParentCompiles == faulty_commit > 1 /\ chain[faulty_commit - 1]

\* C22: when bisection has yielded a commit, the run ends with success=true
\* and that commit whatever verification gives, and verified is false when
\* the parent does not compile or its compile was not run.
C22_VerificationKeepsResult ==
    [][(pc = "verify" /\ pc' = "done")
          => /\ result'.success
             /\ result'.faulty_commit = faulty_commit
             /\ (~ParentCompiles \/ calls' = calls) => ~result'.verified]_vars

\* a run that ended with a located commit whose parent does not compile
C22_Witness ==
    /\ pc = "done"
    /\ faulty_commit # None
    /\ ~ParentCompiles
    /\ result.success
    /\ result.faulty_commit = faulty_commit
    /\ ~result.verified

----------------------------------------------------------------------------
(***************************************************************************)
(* Durability of a save.                                                   *)
(***************************************************************************)
\* C23: after a process died inside a save, learning_db.json holds the
\* complete previous document or the complete new one.
C23_NoPartialWrite ==
    last.op = "crash" => db_file \in {last.previous, last.new}

----------------------------------------------------------------------------
(***************************************************************************)
(* json.dump and json.load on the documents of the two stores.  A JSON     *)
(* text is the value it denotes: null, true/false, a number, a string, an  *)
(* array (a sequence) or an object (a function of its keys).  Timestamps   *)
(* are isoformat strings; a float is written with repr, which denotes the  *)
(* same float.                                                             *)
(***************************************************************************)
json_null == [json |-> "null"]
json_bool(b) == [json |-> IF b THEN "true" ELSE "false"]
json_number(n) == [json |-> "number", value |-> n]
json_string(x) == [json |-> "string", value |-> x]

\* a Python value that is None or a string
json_optional(v) == IF v = None THEN json_null ELSE json_string(v)

\* what json.load builds for a token
py_bool(j) == j.json = "true"
py_value(j) == IF j.json = "null" THEN None ELSE j.value

\* one entry of root_causes, written and read
dump_pattern(pat) ==
    [confidence |-> json_string(pat.confidence),
     success_count |-> json_number(pat.success_count),
     failure_count |-> json_number(pat.failure_count),
     consecutive_successes |-> json_number(pat.consecutive_successes),
     consecutive_failures |-> json_number(pat.consecutive_failures),
     total_attempts |-> json_number(pat.total_attempts),
     promoted_at |-> json_optional(pat.promoted_at),
     last_update |-> json_string(pat.last_update)]

\* load_pattern with the promotion stamp lost
load_pattern_forgets_promotion(j) ==
    [confidence |-> py_value(j.confidence),
     success_count |-> py_value(j.success_count),
     failure_count |-> py_value(j.failure_count),
     consecutive_successes |-> py_value(j.consecutive_successes),
     consecutive_failures |-> py_value(j.consecutive_failures),
     total_attempts |-> py_value(j.total_attempts),
     promoted_at |-> None,
     last_update |-> py_value(j.last_update)]

load_pattern(j) ==
    [confidence |-> py_value(j.confidence),
     success_count |-> py_value(j.success_count),
     failure_count |-> py_value(j.failure_count),
     consecutive_successes |-> py_value(j.consecutive_successes),
     consecutive_failures |-> py_value(j.consecutive_failures),
     total_attempts |-> py_value(j.total_attempts),
     promoted_at |-> py_value(j.promoted_at),
     last_update |-> py_value(j.last_update)]

\* json.dump(self.data, f) of pr_outcome_monitor.LearningDatabase.save
json_dump(data) ==
    [metadata |->
        [created |-> json_string(data.metadata.created),
         last_updated |-> json_string(data.metadata.last_updated),
         total_patterns |-> json_number(data.metadata.total_patterns),
         promoted_patterns |-> json_number(data.metadata.promoted_patterns),
         demoted_patterns |-> json_number(data.metadata.demoted_patterns)],
     root_causes |-> [rc \in DOMAIN data.root_causes |->
                         dump_pattern(data.root_causes[rc])]]

\* json.load(f) of pr_outcome_monitor.LearningDatabase._load
json_load(text) ==
    [metadata |->
        [created |-> py_value(text.metadata.created),
         last_updated |-> py_value(text.metadata.last_updated),
         total_patterns |-> py_value(text.metadata.total_patterns),
         promoted_patterns |-> py_value(text.metadata.promoted_patterns),
         demoted_patterns |-> py_value(text.metadata.demoted_patterns)],
     root_causes |-> [rc \in DOMAIN text.root_causes |->
                         load_pattern(text.root_causes[rc])]]

\* one entry of the classifier's patterns, written and read
lc_dump_stats(st) ==
    [category |-> json_string(st.category),
     pattern |-> json_string(st.pattern),
     total_attempts |-> json_number(st.total_attempts),
     successful_fixes |-> json_number(st.successful_fixes),
     failed_fixes |-> json_number(st.failed_fixes),
     success_rate |-> json_number(st.success_rate),
     promoted_to_high |-> json_bool(st.promoted_to_high),
     promotion_date |-> json_optional(st.promotion_date),
     consecutive_successes |-> json_number(st.consecutive_successes),
     consecutive_failures |-> json_number(st.consecutive_failures),
     last_updated |-> json_string(st.last_updated),
     error_examples |->
         [i \in DOMAIN st.error_examples |->
             [timestamp |-> json_string(st.error_examples[i].timestamp),
              success |-> json_bool(st.error_examples[i].success)]]]

lc_load_stats(j) ==
    [category |-> py_value(j.category),
     pattern |-> py_value(j.pattern),
     total_attempts |-> py_value(j.total_attempts),
     successful_fixes |-> py_value(j.successful_fixes),
     failed_fixes |-> py_value(j.failed_fixes),
     success_rate |-> py_value(j.success_rate),
     promoted_to_high |-> py_bool(j.promoted_to_high),
     promotion_date |-> py_value(j.promotion_date),
     consecutive_successes |-> py_value(j.consecutive_successes),
     consecutive_failures |-> py_value(j.consecutive_failures),
     last_updated |-> py_value(j.last_updated),
     error_examples |->
         [i \in DOMAIN j.error_examples |->
             [timestamp |-> py_value(j.error_examples[i].timestamp),
              success |-> py_bool(j.error_examples[i].success)]]]

\* one entry of pattern_history, written and read
lc_dump_history(h) ==
    [action |-> json_string(h.action),
     pattern_key |-> json_string(h.pattern_key),
     category |-> json_string(h.category),
     success_rate |-> json_number(h.success_rate),
     consecutive_successes |-> json_number(h.consecutive_successes),
     timestamp |-> json_string(h.timestamp)]

lc_load_history(j) ==
    [action |-> py_value(j.action),
     pattern_key |-> py_value(j.pattern_key),
     category |-> py_value(j.category),
     success_rate |-> py_value(j.success_rate),
     consecutive_successes |-> py_value(j.consecutive_successes),
     timestamp |-> py_value(j.timestamp)]

\* json.dump(self.data, f) of learning_classifier.LearningDatabase.save
lc_json_dump(data) ==
    [metadata |->
        [created |-> json_string(data.metadata.created),
         last_updated |-> json_string(data.metadata.last_updated),
         total_fixes_attempted |->
             json_number(data.metadata.total_fixes_attempted),
         total_fixes_succeeded |->
             json_number(data.metadata.total_fixes_succeeded),
         total_patterns_promoted |->
             json_number(data.metadata.total_patterns_promoted)],
     patterns |-> [key \in DOMAIN data.patterns |->
                      lc_dump_stats(data.patterns[key])],
     pattern_history |-> [i \in DOMAIN data.pattern_history |->
                             lc_dump_history(data.pattern_history[i])]]

\* json.load(f) of learning_classifier.LearningDatabase._load
lc_json_load(text) ==
    [metadata |->
        [created |-> py_value(text.metadata.created),
         last_updated |-> py_value(text.metadata.last_updated),
         total_fixes_attempted |->
             py_value(text.metadata.total_fixes_attempted),
         total_fixes_succeeded |->
             py_value(text.metadata.total_fixes_succeeded),
         total_patterns_promoted |->
             py_value(text.metadata.total_patterns_promoted)],
     patterns |-> [key \in DOMAIN text.patterns |->
                      lc_load_stats(text.patterns[key])],
     pattern_history |-> [i \in DOMAIN text.pattern_history |->
                             lc_load_history(text.pattern_history[i])]]

(***************************************************************************)
(* A store that is saved and opened again.  One run works with one of the  *)
(* two stores: process h1 uses a pr_outcome_monitor.LearningDatabase, and  *)
(* h2 opens the file after a save (as test_learning_database does); or    *)
(* webhook requests and promote commands work on the classifier's store,   *)
(* which is saved and opened again.                                        *)
(***************************************************************************)
StoreSide == cdb_file = Missing /\ clast = NoOp
ClassifierSide ==
    /\ db_file = Missing
    /\ last = NoOp
    /\ ldb["h1"] = load_db(Missing, 1)

\* db.save(), then LearningDatabase(path) in a second object
SaveAndLoad ==
    /\ ldb["h1"] # Unloaded
    /\ ldb["h2"] = Unloaded
    /\ \E saved \in {save(ldb["h1"], now)} :
           /\ ldb' = [ldb EXCEPT !["h1"] = saved,
                                 !["h2"] = json_load(json_dump(saved))]
           /\ db_file' = saved
    /\ last' = [op |-> "round_trip"]
    /\ UNCHANGED now
    /\ UNCHANGED notStoreVars

\* the same on the classifier's store
ClassifierSaveAndLoad ==
    /\ clast.op # "round_trip"
    /\ \E saved \in {lc_save(lc_load(cdb_file, now), now)} :
           /\ cdb_file' = saved
           /\ clast' = [op |-> "round_trip", saved |-> saved,
                        loaded |-> lc_json_load(lc_json_dump(saved))]
    /\ UNCHANGED <<now, db_file, ldb, last>>
    /\ UNCHANGED notClsVars

RoundTripRecord == StoreSide /\ StoreRecord
RoundTripPromote == StoreSide /\ StorePromote
RoundTripDemote == StoreSide /\ StoreDemote
RoundTripSaveAndLoad == StoreSide /\ SaveAndLoad
RoundTripClose == StoreSide /\ CloseStore("h2")
RoundTripWebhook ==
    /\ ClassifierSide
    /\ \E merged \in BOOLEAN, issues \in IssueLists :
           HandleWebhookRequest("closed", TRUE, merged, issues)
RoundTripCmdPromote == ClassifierSide /\ ClassifierPromote
RoundTripClassifier == ClassifierSide /\ ClassifierSaveAndLoad

RoundTripNext ==
    \/ RoundTripRecord \/ RoundTripPromote \/ RoundTripDemote
    \/ RoundTripSaveAndLoad \/ RoundTripClose
    \/ RoundTripWebhook \/ RoundTripCmdPromote \/ RoundTripClassifier

InitRoundTrip == StoreInit /\ LocIdle /\ LoopIdle /\ ClassifierIdle
SpecRoundTrip == InitRoundTrip /\ [][RoundTripNext]_vars

----------------------------------------------------------------------------
(***************************************************************************)
(* Terminal events of pull requests the tracker does not know.             *)
(***************************************************************************)
\* neither pr_tracking.json nor a handler's PRTracker has an entry for n
NoAttributionRecord(n) ==
    /\ ~get_pr(load_tracking(trk_file, now), n)
    /\ \A p \in Procs : trk[p] # Unloaded => ~get_pr(trk[p], n)

\* C25: handling a terminal event of a pull request without an attribution
\* record changes neither the learning store nor the tracking data.
C25_NoRecordNoOp ==
    [][(\E n \in PRs : delivered'[n] > delivered[n] /\ NoAttributionRecord(n))
          => /\ db_file' = db_file /\ ldb' = ldb
             /\ trk_file' = trk_file /\ trk' = trk]_vars

----------------------------------------------------------------------------
(***************************************************************************)
(* Pull requests that were registered with add-pr when they were opened,   *)
(* and one PRMergeHandler that receives their events.  A pull request that *)
(* was closed without merge can be reopened on GitHub and merged later, so *)
(* that a second closed event arrives for it, now with merged = true.      *)
(***************************************************************************)
\* pr_tracking.json after add_pr for the root causes of pull requests 1..n
RECURSIVE opened_prs(_, _)
opened_prs(meta, n) ==
    IF n = 0 THEN NewTracking(1)
    ELSE IF meta[n] = NoMeta THEN opened_prs(meta, n - 1)
    ELSE add_prs(opened_prs(meta, n - 1), n, meta[n], 1)

ReopenInit ==
    /\ now = 1
    /\ db_file = Missing
    /\ ldb = [p \in Procs |-> Unloaded]
    /\ last = NoOp
    /\ pr_meta \in [PRs -> RootCauseLists \cup {NoMeta}]
    /\ trk_file = opened_prs(pr_meta, MaxPRs)
    /\ trk = [p \in Procs |-> Unloaded]
    /\ pr_merged \in [PRs -> BOOLEAN]
    /\ delivered = [n \in PRs |-> 0]
    /\ recorded = [rc \in Categories |-> 0]

\* GitHub: a pull request closed without merge is reopened and merged
ReopenAndMerge(n) ==
    /\ delivered[n] > 0
    /\ ~pr_merged[n]
    /\ pr_merged' = [pr_merged EXCEPT ![n] = TRUE]
    /\ last' = [op |-> "reopen", pr |-> n]
    /\ UNCHANGED <<now, db_file, ldb, trk_file, trk, pr_meta, delivered,
                   recorded>>
    /\ UNCHANGED notLoopVars

ReopenConstruct == HandlerConstruct("h1")
ReopenHandle ==
    \E n \in PRs, action \in {"closed", "opened"}, low_conf_title \in BOOLEAN :
        HandleWebhookEvent("h1", n, action, low_conf_title)
ReopenExit == HandlerExit("h1")
ReopenMerge == \E n \in PRs : ReopenAndMerge(n)

ReopenNext == ReopenConstruct \/ ReopenHandle \/ ReopenExit \/ ReopenMerge

InitReopen == ReopenInit /\ LocIdle /\ ClassifierIdle
SpecReopen == InitReopen /\ [][ReopenNext]_vars

\* the entries of pr_tracking.json
TrackedEntries == load_tracking(trk_file, now).prs

\* C26: an entry whose outcome is success or failure keeps its outcome and
\* its status in whatever is written to pr_tracking.json later.
C26_OutcomeSetOnce ==
    [][\A i \in 1..Len(TrackedEntries) :
          TrackedEntries[i].outcome \in {"success", "failure"}
              => /\ i <= Len(TrackedEntries')
                 /\ TrackedEntries'[i].outcome = TrackedEntries[i].outcome
                 /\ TrackedEntries'[i].status = TrackedEntries[i].status]_vars

----------------------------------------------------------------------------
(***************************************************************************)
(* Compile timeouts.                                                       *)
(***************************************************************************)
\* in the last-good search a timed-out candidate is not taken as good and
\* the walk goes on with the next one
C27_SearchTimeoutContinues ==
    [][(\E rok \in BOOLEAN : SearchStepWith("compile_timeout", rok))
          => /\ good_commit' = None
             /\ pc' = "search"
             /\ idx' = idx + 1]_vars

\* in bisection a timed-out midpoint is marked bad and the bisection goes on
C27_BisectTimeoutMarksBad ==
    [][(\E with_changes \in BOOLEAN :
            BisectStepWith("compile_timeout", with_changes))
          => /\ pc' \in {"bisect", "verify"}
             /\ hi' = head
             /\ lo' = lo]_vars

\* C27: a compile that runs into its timeout counts as "does not compile" in
\* the last-good search and in bisection, and does not end the run.
C27_TimeoutIsCompileFailure ==
    [][/\ (\E rok \in BOOLEAN : SearchStepWith("compile_timeout", rok))
          => /\ good_commit' = None
             /\ pc' = "search"
             /\ idx' = idx + 1
       /\ (\E with_changes \in BOOLEAN :
               BisectStepWith("compile_timeout", with_changes))
          => /\ pc' \in {"bisect", "verify"}
             /\ hi' = head
             /\ lo' = lo]_vars

----------------------------------------------------------------------------
(***************************************************************************)
(* Checkouts that fail during the last-good search.                        *)
(***************************************************************************)
\* C28: a candidate whose checkout failed is not compiled and not reported
\* as good, and the search goes on with the next older candidate.
C28_FailedCheckoutSkipped ==
    [][(\E rok \in BOOLEAN : SearchStepWith("checkout_fail", rok))
          => /\ calls' = calls
             /\ good_commit' = None
             /\ pc' = "search"
             /\ idx' = idx + 1
             /\ head' = head]_vars

\* the search skipped a candidate without compiling it and then found the
\* good revision
C28_Witness ==
    /\ pc = "bisect_start"
    /\ faults = 1
    /\ calls = idx - 1
    /\ good_commit = head0 - idx

----------------------------------------------------------------------------
(***************************************************************************)
(* Two invocations on one working tree.  Next to the run that is followed  *)
(* step by step, a second FaultyCommitAnalyzer (another build of the same  *)
(* workspace, or the command line of fault_commit_analyzer.py) starts its  *)
(* own last-good search: it stashes what it finds in the tree and checks   *)
(* out the commit before the one that is checked out.  Neither analyze nor *)
(* its callers take a lock, so the step needs nothing but a commit to go   *)
(* to.                                                                     *)
(***************************************************************************)
SharedInit ==
    /\ LocInit
    /\ chain \in OpaqueChains

\* the first iteration of the second run's find_last_good_commit
ConcurrentSearchStep ==
    /\ head > 1
    /\ \E st \in {git_stash(stash, wt)} :
           /\ stash' = st.stash
           /\ wt' = st.wt
    /\ head' = head - 1
    /\ UNCHANGED <<chain, pc, idx, current_sha, good_commit, lo, hi, found,
                   attempt, orig, faulty_commit, result, calls, faults,
                   head0, stash0, wt0>>
    /\ UNCHANGED notLocVars

SharedNext == LocNext \/ ConcurrentSearchStep

InitShared == SharedInit /\ StoreIdle /\ LoopIdle /\ ClassifierIdle
SpecShared == InitShared /\ [][SharedNext]_vars

\* the followed run is between its first stash/checkout and its last restore
InLocatorRun ==
    \/ pc \in {"bisect_start", "bisect", "verify"}
    \/ pc = "search" /\ idx > 1

\* a step that moves HEAD or the stash and is not a step of the followed run
ForeignTreeStep ==
    /\ <<head, stash, wt>>' # <<head, stash, wt>>
    /\ <<pc, idx, attempt, calls, faults>>' = <<pc, idx, attempt, calls, faults>>

\* C29: while a locator run is between its first stash/checkout and its
\* final restore, nothing else checks out, stashes or writes in the tree.
C29_ExclusiveWorkingTree ==
    [][ForeignTreeStep => ~InLocatorRun]_vars

\* ---------------------------------------------------------------------
\* The feedback handler started over stores that a crashed writer left
\* behind: learning_db.json and pr_tracking.json may exist and not parse.

RestartInit ==
    /\ now = 1
    /\ db_file \in {Missing, Corrupt}
    /\ ldb = [p \in Procs |-> Unloaded]
    /\ last = NoOp
    /\ trk_file \in {Missing, Corrupt}
    /\ trk = [p \in Procs |-> Unloaded]
    /\ pr_meta \in [PRs -> RootCauseLists \cup {NoMeta}]
    /\ pr_merged \in [PRs -> BOOLEAN]
    /\ delivered = [n \in PRs |-> 0]
    /\ recorded = [rc \in Categories |-> 0]

RestartConstruct == HandlerConstruct("h1")
RestartHandle ==
    \E n \in PRs, action \in {"closed", "opened"}, low_conf_title \in BOOLEAN :
        HandleWebhookEvent("h1", n, action, low_conf_title)
RestartExit == HandlerExit("h1")
RestartTruncate == TruncateStoreFile

RestartNext ==
    RestartConstruct \/ RestartHandle \/ RestartExit \/ RestartTruncate

InitRestart == RestartInit /\ LocIdle /\ ClassifierIdle
SpecRestart == InitRestart /\ [][RestartNext]_vars

\* every finished analyze run holds a result record: success with the
\* commit it names, or failure with the reason
C30_AnalyzeReturnsRecord ==
    pc = "done" =>
        /\ result.success \in BOOLEAN
        /\ result.success => result.faulty_commit # None
        /\ ~result.success => result.error # "none"

\* an analyze run that has not returned can always take its next step,
\* whichever git or compile steps failed before
C30_AnalyzeProceeds == pc # "done" => ENABLED LocNext

\* every event the handler was given came back as a boolean
C30_EventReturnsBoolean ==
    last.op \in {"handle", "ignore"} => last.ret \in BOOLEAN

\* C30: no exception escapes the feedback handlers: constructing the
\* handler does not raise and every event handed to handle_webhook_event
\* comes back as a boolean, whatever the state of the two store files
C30_NoExceptionEscapes ==
    /\ last.op = "construct" => ~last.raised
    /\ last.op \in {"handle", "ignore"} => last.ret \in BOOLEAN

----------------------------------------------------------------------------
(***************************************************************************)
(* One process working on the classifier's store through an object it      *)
(* keeps, as test_learning_database does: record_fix_attempt,              *)
(* check_promotion, promote_pattern, save, and a second LearningDatabase   *)
(* constructed over the same file.                                         *)
(***************************************************************************)
LearnPatterns == {extract_pattern(n) : n \in IssueNames}

\* get_stats: the counts a LearningDatabase reports
get_stats(data) ==
    [total_patterns_tracked |-> Cardinality(DOMAIN data.patterns),
     patterns_promoted_to_high |->
         Cardinality({k \in DOMAIN data.patterns :
                          data.patterns[k].promoted_to_high}),
     total_fixes_attempted |-> data.metadata.total_fixes_attempted,
     total_fixes_succeeded |-> data.metadata.total_fixes_succeeded,
     last_updated |-> data.metadata.last_updated]

\* db = LearningDatabase(path)
LearnOpen ==
    /\ cdb = Unloaded
    /\ cdb' = lc_load(cdb_file, now)
    /\ UNCHANGED <<lc_calls, clsVars, storeVars>>
    /\ UNCHANGED <<locVars, loopVars, fixVars>>

\* db.record_fix_attempt(...)
LearnRecord(info, success, has_message) ==
    /\ cdb # Unloaded
    /\ clast = NoOp
    /\ Len(lc_calls) <= MaxFixAttempts
    /\ cdb' = record_fix_attempt(cdb, info.pattern, info.category, success,
                                 has_message, now)
    /\ lc_calls' = Append(lc_calls,
                          [call |-> "record_fix_attempt",
                           key |-> pattern_key(info.category, info.pattern),
                           success |-> success])
    /\ UNCHANGED <<clsVars, storeVars>>
    /\ UNCHANGED <<locVars, loopVars, fixVars>>

\* db.promote_pattern(...), which saves
LearnPromote(info) ==
    /\ cdb # Unloaded
    /\ clast = NoOp
    /\ Len(lc_calls) <= MaxFixAttempts
    /\ \E r \in {lc_promote_pattern(cdb, info.pattern, info.category, now)} :
           /\ cdb' = r.data
           /\ cdb_file' = IF r.saved THEN r.data ELSE cdb_file
           /\ lc_calls' = Append(lc_calls,
                                 [call |-> "promote_pattern",
                                  key |-> pattern_key(info.category,
                                                      info.pattern),
                                  success |-> r.ret])
    /\ UNCHANGED <<clast, storeVars>>
    /\ UNCHANGED <<locVars, loopVars, fixVars>>

\* db.save(); db2 = LearningDatabase(path); db2.get_stats(): the last thing
\* the process does
LearnSaveAndReload ==
    /\ cdb # Unloaded
    /\ clast = NoOp
    /\ \E saved \in {lc_save(cdb, now)} :
           /\ cdb' = saved
           /\ cdb_file' = saved
           /\ \E db2 \in {lc_json_load(lc_json_dump(saved))} :
                  clast' = [op |-> "reload", calls |-> lc_calls,
                            patterns |-> db2.patterns,
                            stats |-> get_stats(db2)]
    /\ UNCHANGED <<lc_calls, storeVars>>
    /\ UNCHANGED <<locVars, loopVars, fixVars>>

LearnRecordAny ==
    \E info \in LearnPatterns, success \in BOOLEAN :
        LearnRecord(info, success, TRUE)
LearnPromoteAny == \E info \in LearnPatterns : LearnPromote(info)

LearnNext ==
    LearnOpen \/ LearnRecordAny \/ LearnPromoteAny \/ LearnSaveAndReload

InitLearn == ClassifierInit /\ LocIdle /\ LoopIdle
SpecLearn == InitLearn /\ [][LearnNext]_vars

\* the successful record_fix_attempt calls made for key since the last
\* failed one
RECURSIVE streak(_, _)
streak(history, key) ==
    IF history = << >> THEN 0
    ELSE LET c == history[Len(history)]
             before == SubSeq(history, 1, Len(history) - 1)
         IN  IF c.call # "record_fix_attempt" \/ c.key # key
             THEN streak(before, key)
             ELSE IF c.success THEN 1 + streak(before, key) ELSE 0

\* a promote_pattern call for key went through
promoted_by(history, key) ==
    \E i \in 1..Len(history) :
        /\ history[i].call = "promote_pattern"
        /\ history[i].key = key
        /\ history[i].success

\* C31: check_promotion is true exactly for a pattern with at least
\* SUCCESS_THRESHOLD (5) consecutive successful record_fix_attempt calls
\* that was not promoted; and a database constructed over the file after
\* promote_pattern reports the promoted pattern as tracked and promoted.
C31_PromotionAfterFiveSuccesses ==
    /\ cdb # Unloaded =>
           \A info \in LearnPatterns :
               lc_check_promotion(cdb, info.pattern, info.category)
                   = (/\ streak(lc_calls, pattern_key(info.category,
                                                      info.pattern))
                             >= LC_SUCCESS_THRESHOLD
                      /\ ~promoted_by(lc_calls, pattern_key(info.category,
                                                            info.pattern)))
    /\ clast.op = "reload" =>
           \A key \in {pattern_key(info.category, info.pattern) :
                           info \in LearnPatterns} :
               promoted_by(clast.calls, key)
                   => /\ key \in DOMAIN clast.patterns
                      /\ clast.patterns[key].promoted_to_high
                      /\ clast.stats.total_patterns_tracked >= 1
                      /\ clast.stats.patterns_promoted_to_high >= 1

\* five successes in a row, the promotion, and the reload that shows it
C31_Witness ==
    /\ clast.op = "reload"
    /\ \E key \in DOMAIN clast.patterns :
           /\ streak(clast.calls, key) >= LC_SUCCESS_THRESHOLD
           /\ promoted_by(clast.calls, key)
           /\ clast.patterns[key].promoted_to_high
           /\ ~lc_check_promotion(cdb, clast.patterns[key].pattern,
                                  clast.patterns[key].category)

----------------------------------------------------------------------------
(***************************************************************************)
(* The webhook server alone: every request is a pull request event,        *)
(* closed or not, of an auto-fix pull request or of another one.           *)
(***************************************************************************)
\* the payloads GitHub delivers: an event of a pull request carries the
\* pull request, any other event has no such key.  A title and a user name
\* are the words they are made of.
NoPullRequest == [absent |-> TRUE]
Titles == {<<"[Auto-Fix]", "review">>, <<"[auto-fix]", "review">>,
           <<"Update", "readme">>}
Users == {[login |-> "build-automation@jenkins.local", name |-> << >>],
          [login |-> "jenkins", name |-> <<"Build Automation">>],
          [login |-> "dev", name |-> << >>]}
PayloadBodies == UNION {[1..n -> IssueNames \cup {OtherLine}] : n \in 0..1}
PullRequests == [title : Titles, user : Users, merged : BOOLEAN,
                 body : PayloadBodies]
Payloads ==
    [action : {"closed", "opened"}, pull_request : PullRequests]
        \cup [action : {"closed", "none"}, pull_request : {NoPullRequest}]

\* substring test on a text given by its words
contains(text, word) == \E i \in DOMAIN text : text[i] = word

is_auto_fix_any_title(pr) ==
    \/ pr.title # << >>
    \/ pr.user.login = "build-automation@jenkins.local"
    \/ contains(pr.user.name, "Build Automation")

\* the test process_github_webhook makes on the title and the author
is_auto_fix(pr) ==
    \/ contains(pr.title, "[Auto-Fix]")
    \/ contains(pr.title, "[auto-fix]")
    \/ pr.user.login = "build-automation@jenkins.local"
    \/ contains(pr.user.name, "Build Automation")

\* process_github_webhook on a payload: an event without a pull request is
\* ignored before anything else is read
process_github_webhook_payload(data, webhook_payload, t) ==
    IF webhook_payload.pull_request = NoPullRequest
    THEN [data |-> data, saved |-> FALSE, status |-> "ignored",
          patterns_recorded |-> 0]
    ELSE LET pr == webhook_payload.pull_request
         IN  process_github_webhook(data, webhook_payload.action,
                                    is_auto_fix(pr), pr.merged, pr.body, t)

\* handle_webhook_request on the body of one delivery
HandleWebhookPayload(webhook_payload) ==
    /\ lc_load(cdb_file, now).metadata.total_fixes_attempted
           < MaxPayloadFixes
    /\ lc_load(cdb_file, now).metadata.total_patterns_promoted
           < MaxPromotions
    /\ \E db \in {lc_load(cdb_file, now)} :
          \E r \in {process_github_webhook_payload(db, webhook_payload, now)} :
             /\ cdb_file' = IF r.saved THEN r.data ELSE cdb_file
             /\ clast' = [op |-> "payload", payload |-> webhook_payload,
                          status |-> r.status,
                          patterns_recorded |-> r.patterns_recorded,
                          written |-> r.saved]
    /\ UNCHANGED <<now, db_file, ldb, last>>
    /\ UNCHANGED notClsVars

WebhookPayload ==
    \E webhook_payload \in Payloads : HandleWebhookPayload(webhook_payload)

InitPayload == ClassifierInit /\ LocIdle /\ LoopIdle
SpecPayload == InitPayload /\ [][WebhookPayload]_vars

WebhookClosedAutoFix ==
    \E merged \in BOOLEAN, pr_body \in PrBodies :
        HandleWebhookRequest("closed", TRUE, merged, pr_body)

WebhookOtherEvent ==
    \E action \in {"closed", "opened"}, is_auto_fix_pr \in BOOLEAN,
       merged \in BOOLEAN, pr_body \in PrBodies :
        /\ ~(action = "closed" /\ is_auto_fix_pr)
        /\ HandleWebhookRequest(action, is_auto_fix_pr, merged, pr_body)

WebhookNext == WebhookClosedAutoFix \/ WebhookOtherEvent

InitWebhook == ClassifierInit /\ LocIdle /\ LoopIdle
SpecWebhook == InitWebhook /\ [][WebhookNext]_vars

----------------------------------------------------------------------------
\* the issue entries of a body that name the pattern key
EntriesFor(pr_body, key) ==
    Cardinality({i \in DOMAIN pr_body :
                     /\ pr_body[i] # OtherLine
                     /\ pattern_key(extract_pattern(pr_body[i]).category,
                                    extract_pattern(pr_body[i]).pattern)
                            = key})

\* the issue entries of a body
Entries(pr_body) ==
    Cardinality({i \in DOMAIN pr_body : pr_body[i] # OtherLine})

\* a counter of the pattern key in a store, 0 for an unknown pattern
StatOf(data, key, field) ==
    IF key \in DOMAIN data.patterns THEN data.patterns[key][field] ELSE 0

----------------------------------------------------------------------------
\* the phases of analyze in the order of its code
PhaseOf(p) ==
    CASE p = "start" -> 0
      [] p = "search" -> 1
      [] p \in {"bisect_start", "bisect"} -> 2
      [] p = "verify" -> 3
      [] p = "done" -> 4

\* C33: analyze goes through the search for the last good commit, the
\* bisection and the verification in this order and ends; the bisection
\* starts only with a good commit found, the verification only with a
\* faulty commit named, and no phase is entered a second time.
C33_PhaseOrder ==
    [][/\ PhaseOf(pc') >= PhaseOf(pc)
       /\ (PhaseOf(pc') = 2 /\ PhaseOf(pc) # 2)
              => (pc = "search" /\ good_commit' # None)
       /\ (PhaseOf(pc') = 3 /\ PhaseOf(pc) # 3)
              => (pc = "bisect" /\ faulty_commit' # None)
       /\ (PhaseOf(pc') = 4 /\ PhaseOf(pc) # 4 /\ result'.success)
              => pc = "verify"
       /\ PhaseOf(pc) = 4 => pc' = pc]_vars

\* a run that went through all three phases and named a commit
C33_Witness ==
    /\ pc = "done"
    /\ result.success
    /\ good_commit # None
    /\ faulty_commit # None
    /\ attempt > 0
    /\ idx > 0

----------------------------------------------------------------------------
\* C34: a result record analyze returns is successful exactly when it names
\* a faulty commit; a successful one has no error, an unsuccessful one has
\* an error and names no commit.
C34_ResultRecordShape ==
    pc = "done" =>
        /\ result.success <=> result.faulty_commit # None
        /\ result.success => result.error = "none"
        /\ ~result.success =>
               (result.error # "none" /\ result.faulty_commit = None)

\* a run that found a good commit and whose bisection failed
C34_Witness ==
    /\ pc = "done"
    /\ good_commit # None
    /\ ~result.success
    /\ result.error = "bisect_failed"
    /\ result.faulty_commit = None

----------------------------------------------------------------------------
\* C35: while monitor_open_prs processes one outcome, a success does not
\* take the category from high to low, a failure does not take it from low
\* to high, and the category is not both promoted and demoted.
C35_ExclusiveByOutcome ==
    last.op = "monitor_open_prs" =>
        \A i \in DOMAIN last.done :
            last.done[i].recorded =>
                /\ last.done[i].success => ~last.done[i].became_low
                /\ ~last.done[i].success => ~last.done[i].became_high
                /\ ~(last.done[i].became_high /\ last.done[i].became_low)

\* the weaker reading: promote_pattern is not called for a failure and
\* demote_pattern is not called for a success
C35_NoCallAgainstOutcome ==
    last.op = "monitor_open_prs" =>
        \A i \in DOMAIN last.done :
            last.done[i].recorded =>
                /\ last.done[i].success => ~last.done[i].demoted
                /\ ~last.done[i].success => ~last.done[i].promoted

----------------------------------------------------------------------------
(***************************************************************************)
(* The retry guard of build_fix.py.  Every run of the script belongs to    *)
(* the build whose BUILD_ID it finds in the environment; a build may run   *)
(* the script several times, and the next build has another BUILD_ID.      *)
(***************************************************************************)
ErrorHashes == {"e1", "e2"}

\* a session id as the history file holds it; 'unknown' when the
\* environment names no build
SessionName(session_id) ==
    IF session_id = None THEN [unknown |-> TRUE] ELSE [id |-> session_id]

\* check_error_history: True only for a hash in the list of a history file
\* whose current_session is the running one
check_error_history(file, error_hash, session_id) ==
    IF session_id = None THEN FALSE
    ELSE IF file = Missing THEN FALSE
    ELSE IF file.current_session = SessionName(session_id)
         THEN \E i \in 1..Len(file.attempted_errors) :
                  file.attempted_errors[i] = error_hash
         ELSE FALSE

\* record_error_attempt: the history after the attempt is written
record_error_attempt(file, error_hash, success, session_id, t) ==
    LET history == IF file = Missing
                   THEN [attempted_errors |-> << >>, attempt_count |-> 0]
                   ELSE [attempted_errors |-> file.attempted_errors,
                         attempt_count |-> file.attempt_count]
        known == \E i \in 1..Len(history.attempted_errors) :
                     history.attempted_errors[i] = error_hash
    IN  [current_session |-> SessionName(session_id),
         attempted_errors |-> IF known THEN history.attempted_errors
                              ELSE Append(history.attempted_errors,
                                          error_hash),
         last_attempt |-> t,
         last_success |-> success,
         attempt_count |-> history.attempt_count + 1]

FixInit ==
    /\ fix_history = Missing
    /\ session = None
    /\ attempted = {}
    /\ flast = NoOp
    /\ cdb = Unloaded
    /\ lc_calls = << >>

\* main of build_fix.py for a source file whose compile error hashes to
\* error_hash: the guard, and the attempt recorded on every path
BuildFixMain(error_hash, fixed) ==
    /\ IF fix_history = Missing THEN TRUE
       ELSE fix_history.attempt_count < MaxRecorded
    /\ \E blocked \in {check_error_history(fix_history, error_hash, session)} :
           /\ fix_history' = record_error_attempt(fix_history, error_hash,
                                                  ~blocked /\ fixed, session,
                                                  now)
           /\ flast' = [op |-> "main", error_hash |-> error_hash,
                        session |-> session, blocked |-> blocked,
                        seen_in_session |->
                            <<session, error_hash>> \in attempted]
    /\ attempted' = attempted \cup {<<session, error_hash>>}
    /\ UNCHANGED <<session, cdb, lc_calls>>
    /\ UNCHANGED <<locVars, storeVars, loopVars, clsVars>>

\* the next build starts: Jenkins sets a new BUILD_ID
NextBuild ==
    /\ session < MaxSessions
    /\ session' = session + 1
    /\ UNCHANGED <<fix_history, attempted, flast, cdb, lc_calls>>
    /\ UNCHANGED <<locVars, storeVars, loopVars, clsVars>>

FixRun == \E error_hash \in ErrorHashes, fixed \in BOOLEAN : BuildFixMain(error_hash, fixed)

FixNext == FixRun \/ NextBuild

InitFix == FixInit /\ LocIdle /\ StoreIdle /\ LoopIdle /\ cdb_file = Missing /\ clast = NoOp
SpecFix == InitFix /\ [][FixNext]_vars

\* C36: the guard blocks an attempt only when the same error hash was
\* recorded earlier in the running build; a hash attempted only in an
\* earlier build does not block.
C36_BlockedOnlyBySameSession ==
    (flast.op = "main" /\ flast.blocked) => flast.seen_in_session

----------------------------------------------------------------------------
(***************************************************************************)
(* Pull requests with several root causes: add-pr is called once per root  *)
(* cause with the same number, as pr_merge_handler does for the root       *)
(* causes of one pull request.  GitHub never reports a merged pull request *)
(* as anything else afterwards.                                            *)
(***************************************************************************)

\* add-pr <pr_number> <root_cause> of the command line
TrackAddPr(pr_number, root_cause) ==
    /\ Len(trk["h1"].prs) < MaxEntries
    /\ \A i \in 1..Len(trk["h1"].prs) :
           trk["h1"].prs[i].pr_number = pr_number
               => /\ trk["h1"].prs[i].root_cause # root_cause
                  /\ trk["h1"].prs[i].status = "open"
    /\ LET data == add_pr(trk["h1"], pr_number, root_cause, now)
       IN  /\ trk' = [trk EXCEPT !["h1"] = data]
           /\ trk_file' = data
    /\ last' = [op |-> "add_pr"]
    /\ UNCHANGED <<now, db_file, ldb, pr_meta, pr_merged, delivered,
                   recorded>>
    /\ UNCHANGED notLoopVars

\* the pull requests a run finds merged or closed among its open entries
Observed(open_prs, answers) ==
    {open_prs[i].pr_number : i \in
        {j \in 1..Len(open_prs) :
            answers[open_prs[j].pr_number] \in {"merged", "closed"}}}

\* one run of monitor_open_prs, GitHub answering per pull request
TrackMonitorOpenPrs(answers) ==
    /\ recorded["risky:business_logic"] + recorded["safe:missing_import"]
           <= MaxEntries
    /\ \A i \in 1..Len(trk["h1"].prs) :
           trk["h1"].prs[i].status = "merged"
               => answers[trk["h1"].prs[i].pr_number]
                      \in {"merged", "fetch_failed"}
    /\ \E r \in {monitor_loop(ldb["h1"], trk["h1"], get_open_prs(trk["h1"]),
                              answers, now, << >>)} :
           /\ ldb' = [ldb EXCEPT !["h1"] = r.db]
           /\ db_file' = IF r.db # ldb["h1"] THEN r.db ELSE db_file
           /\ trk' = [trk EXCEPT !["h1"] = r.trk]
           /\ trk_file' = IF r.trk # trk["h1"] THEN r.trk ELSE trk_file
           /\ recorded' = [rc \in Categories |->
                              recorded[rc] + RecordedIn(r.done, rc)]
           /\ last' = [op |-> "monitor_open_prs", done |-> r.done,
                       observed |-> Observed(get_open_prs(trk["h1"]),
                                             answers)]
    /\ UNCHANGED <<now, pr_meta, pr_merged, delivered>>
    /\ UNCHANGED notLoopVars

TrackAdd ==
    \E pr_number \in PRs, root_cause \in Categories :
        TrackAddPr(pr_number, root_cause)
TrackRun ==
    \E answers \in [PRs -> GitHubAnswers] : TrackMonitorOpenPrs(answers)

TrackNext == TrackAdd \/ TrackRun

InitTracked == MonitorInit /\ LocIdle /\ ClassifierIdle
SpecTracked == InitTracked /\ [][TrackNext]_vars

\* C37: after a run of monitor_open_prs has found a pull request merged or
\* closed, no tracking entry with that number is still open, also when the
\* pull request has one entry per root cause.
C37_NoOpenEntryAfterTerminal ==
    (last.op = "monitor_open_prs")
        => \A n \in last.observed :
               \A i \in 1..Len(trk["h1"].prs) :
                   trk["h1"].prs[i].pr_number = n
                       => trk["h1"].prs[i].status # "open"

\* how many tracking entries name a root cause
EntriesOf(data, rc) ==
    Cardinality({i \in 1..Len(data.prs) : data.prs[i].root_cause = rc})

\* C37, the count: no root cause has more outcomes recorded than it has
\* tracking entries.
C37_RecordedOncePerEntry ==
    \A rc \in Categories : recorded[rc] <= EntriesOf(trk["h1"], rc)

----------------------------------------------------------------------------
\* the root causes of a document whose confidence is high
HighPatterns(data) ==
    {rc \in DOMAIN data.root_causes : data.root_causes[rc].confidence = "high"}

\* the counters of a document agree with its records
CountersConsistent(data) ==
    /\ data.metadata.total_patterns = Cardinality(DOMAIN data.root_causes)
    /\ data.metadata.promoted_patterns - data.metadata.demoted_patterns
           = Cardinality(HighPatterns(data))

\* C38: after every sequence of record_outcome, promote_pattern and
\* demote_pattern calls, total_patterns is the number of tracked root causes
\* and promoted_patterns minus demoted_patterns is the number of root causes
\* whose confidence is high, in the object and in the saved file.
C38_CountersMatchRecords ==
    /\ CountersConsistent(ldb["h1"])
    /\ db_file # Missing => CountersConsistent(db_file)

\* after a promotion, a demotion and a second promotion, with two root
\* causes tracked and one of them high
C38_Witness ==
    /\ last.op = "promote_pattern"
    /\ last.pre.metadata.promoted_patterns = 1
    /\ ldb["h1"].metadata.promoted_patterns = 2
    /\ ldb["h1"].metadata.demoted_patterns = 1
    /\ ldb["h1"].metadata.total_patterns = 2
    /\ Cardinality(HighPatterns(ldb["h1"])) = 1
    /\ db_file = ldb["h1"]

----------------------------------------------------------------------------
\* the error fields analyze gives its result: none on success, or one of its
\* two ordinary failures
OrdinaryErrors == {"none", "no_good_commit", "bisect_failed"}

\* C39: when the checkout back to the original revision fails at the end of
\* the search or of the verification, so that the working tree stays on
\* another revision, analyze does not hand its caller an ordinary result.
C39_RestorationFailureEscalated ==
    [][(\/ /\ pc = "search" /\ pc' = "done"
           /\ idx >= Len(git_log(Len(chain)))
           /\ head' # current_sha
        \/ /\ pc = "verify" /\ pc' = "done"
           /\ head' # head)
          => result'.error \notin OrdinaryErrors]_vars

----------------------------------------------------------------------------
\* a payload that is the closed event of an auto-fix pull request: it has a
\* pull request, its action is closed, and the title carries the marker or
\* the author is the build automation
ClosedAutoFixEvent(webhook_payload) ==
    /\ webhook_payload.pull_request # NoPullRequest
    /\ webhook_payload.action = "closed"
    /\ LET pr == webhook_payload.pull_request
       IN  \/ \E i \in DOMAIN pr.title : pr.title[i] \in {"[Auto-Fix]",
                                                          "[auto-fix]"}
           \/ pr.user.login = "build-automation@jenkins.local"
           \/ \E i \in DOMAIN pr.user.name :
                  pr.user.name[i] = "Build Automation"

\* C40: process_github_webhook answers "ignored" and leaves the learning
\* database file as it is for every payload that is not a pull request
\* event, whose action is not closed, or whose pull request is not an
\* auto-fix one; a payload that writes the store is a closed auto-fix event.
C40_OnlyClosedAutoFixMutates ==
    [][(/\ clast'.op = "payload"
        /\ HandleWebhookPayload(clast'.payload))
          => /\ ~ClosedAutoFixEvent(clast'.payload)
                    => /\ clast'.status = "ignored"
                       /\ ~clast'.written
                       /\ cdb_file' = cdb_file
             /\ (clast'.written \/ cdb_file' # cdb_file)
                    => ClosedAutoFixEvent(clast'.payload)]_vars

\* a closed event of a pull request that is not an auto-fix one was ignored
\* while the store holds attempts of earlier events, and they are still there
C40_Witness ==
    /\ clast.op = "payload"
    /\ clast.payload.action = "closed"
    /\ clast.payload.pull_request # NoPullRequest
    /\ clast.status = "ignored"
    /\ ~clast.written
    /\ cdb_file # Missing
    /\ cdb_file.metadata.total_fixes_attempted >= 2

====
